---- MODULE Spec2Model ----
(***************************************************************************)
(* Verification model of the kernel fragments of zbt78/Paddle:             *)
(*   - the SENDANDRECV heterogeneous RPC test scenario                     *)
(*       (test/cpp/fluid/pscore/send_and_recv_op_gpu_test.cc),             *)
(*   - the two p-norm gradient kernels (unnamed/part_000, part_001),       *)
(*   - the pooling kernel dispatch (paddle/phi/kernels/impl/               *)
(*       pool_kernel_impl.h),                                              *)
(*   - the argmax lowering carried by the same file,                       *)
(*   - the strided index_select gradient kernel                            *)
(*       (paddle/phi/kernels/stride/index_select_grad_kernel.cc).          *)
(* Every component has its own variables and its own specification; a      *)
(* specification keeps the variables of the other components at their      *)
(* initial value.                                                          *)
(***************************************************************************)
EXTENDS Integers, Sequences, FiniteSets, TLC

VARIABLES
  \* ---- SENDANDRECV scenario ----
  c_pc,          \* position of the test body (client / main thread)
  s_pc,          \* position of server_thread (StartSendAndRecvServer)
  endpoint,      \* port drawn by get_ip_port, 0 before the draw
  svc,           \* the HeterServer singleton b_rpc_service2
  task_queue_,   \* (*task_queue_)[0], a BlockingQueue of <<name, microbatch>>
  inflight,      \* send_and_recv requests sent and not yet handled
  sent,          \* sequence of ops of the client program already run
  task,          \* result of the first Pop,  <<>> before it returns
  task2,         \* result of the second Pop, <<>> before it returns
  handled,       \* number of requests the request handler has served
  \* ---- p-norm gradient kernels ----
  pn_build,      \* which PNormGradKernel ran: "none", "part_000", "part_001"
  pn_in,         \* the arguments of the call
  pn_x_grad,     \* *x_grad after the call (flat, row-major)
  pn_launched,   \* the functors the call launched, in order
  \* ---- pooling kernels ----
  pool_in,       \* the arguments of the pooling kernel call
  pool_calls,    \* the functor invocations the call made, in order
  pool_err,      \* the exception the call raised, NoError if none
  pool_ret,      \* the value and out-parameter GetReduceNum returned
  \* ---- argmax lowering ----
  argmax_in,     \* the arguments of the Argmax call
  argmax_out,    \* what the call returned or raised
  sch_in,        \* the arguments of the argmax_schedule call
  sch_out,       \* the schedule after the call and what the call returned
  \* ---- strided index_select gradient ----
  isg_in,        \* the arguments of IndexSelectGradStridedKernel and *x_grad
  isg_out        \* *x_grad after the call and the exception raised

rpcVars == <<c_pc, s_pc, endpoint, svc, task_queue_, inflight, sent, task,
             task2, handled>>

pnVars == <<pn_build, pn_in, pn_x_grad, pn_launched>>

poolVars == <<pool_in, pool_calls, pool_err, pool_ret>>

argmaxVars == <<argmax_in, argmax_out, sch_in, sch_out>>

isgVars == <<isg_in, isg_out>>

vars == <<rpcVars, pnVars, poolVars, argmaxVars, isgVars>>

\* the variables of the other components, for each component
notRpc == <<pnVars, poolVars, argmaxVars, isgVars>>
notPn == <<rpcVars, poolVars, argmaxVars, isgVars>>
notPool == <<rpcVars, pnVars, argmaxVars, isgVars>>
notArgmax == <<rpcVars, pnVars, poolVars, isgVars>>
notIsg == <<rpcVars, pnVars, poolVars, argmaxVars>>

(***************************************************************************)
(* p-norm gradient kernels: no call made                                   *)
(***************************************************************************)
NoCall == [kernel |-> "none"]

PNormIdle ==
  /\ pn_build = "none" /\ pn_in = NoCall /\ pn_x_grad = <<>>
  /\ pn_launched = <<>>

(***************************************************************************)
(* pooling kernels: no call made                                           *)
(***************************************************************************)
NoError == [type |-> "", msg |-> ""]

NoValue == [reduce_num |-> 0, reduce_dim |-> <<>>]

PoolIdle ==
  /\ pool_in = NoCall /\ pool_calls = <<>> /\ pool_err = NoError
  /\ pool_ret = NoValue

(***************************************************************************)
(* argmax lowering, strided index_select gradient: no call made            *)
(***************************************************************************)
ArgmaxIdle ==
  /\ argmax_in = NoCall /\ argmax_out = NoCall
  /\ sch_in = NoCall /\ sch_out = NoCall

IsgIdle == isg_in = NoCall /\ isg_out = NoCall

(***************************************************************************)
(* SENDANDRECV scenario                                                    *)
(***************************************************************************)

\* get_ip_port draws a port uniformly from [4444, 25000]; the model keeps
\* the two ends of the range and NumPorts - 2 ports in between.
PortLo == 4444
PortHi == 25000
NumPorts == 4
get_ip_port ==
  {PortLo + ((PortHi - PortLo) * i) \div (NumPorts - 1) : i \in 0..(NumPorts - 1)}

\* in_var_name of the test body and of StartSendAndRecvServer
in_var_name == "x"

\* the value the client writes into the tensor "microbatch_id" (temp_vec{0})
microbatch_id == 0

\* The root block of the client program: op 1 is the forward send_and_recv,
\* op 2 the backward one.
ProgramOps == 1..2

mode_of(op) == IF op = 1 THEN "forward" ELSE "backward"

message_name_swapped(op) == IF op = 1 THEN in_var_name ELSE "res"

\* attribute "message_name" of the two ops
message_name(op) == in_var_name

\* the request a send_and_recv op puts on the wire
Request(op) ==
  [message_name |-> message_name(op), mode |-> mode_of(op),
   micro_id |-> microbatch_id, op |-> op]

NoTask == <<>>

svc0 ==
  [instance |-> FALSE, endpoint |-> 0, handler |-> "", req_handler |-> FALSE,
   ready |-> FALSE, stopped |-> FALSE, micro_scopes |-> FALSE,
   mini_scopes |-> FALSE, task_queue |-> FALSE]

RpcIdle ==
  /\ c_pc = "idle" /\ s_pc = "idle" /\ endpoint = 0 /\ svc = svc0
  /\ task_queue_ = <<>> /\ inflight = {} /\ sent = <<>>
  /\ task = NoTask /\ task2 = NoTask /\ handled = 0

InitRpc ==
  /\ c_pc = "get_ip_port" /\ s_pc = "not_started" /\ endpoint = 0
  /\ svc = svc0 /\ task_queue_ = <<>> /\ inflight = {} /\ sent = <<>>
  /\ task = NoTask /\ task2 = NoTask /\ handled = 0
  /\ PNormIdle /\ PoolIdle /\ ArgmaxIdle /\ IsgIdle

\* ---- the test body (main thread) ----

\* std::string endpoint = get_ip_port();
TestGetIpPort ==
  /\ c_pc = "get_ip_port"
  /\ \E p \in get_ip_port : endpoint' = p
  /\ c_pc' = "get_instance"
  /\ UNCHANGED notRpc
  /\ UNCHANGED <<s_pc, svc, task_queue_, inflight, sent, task, task2, handled>>

\* b_rpc_service2 = distributed::HeterServer::GetInstance();
TestGetInstance ==
  /\ c_pc = "get_instance"
  /\ svc' = [svc EXCEPT !.instance = TRUE]
  /\ c_pc' = "spawn"
  /\ UNCHANGED notRpc
  /\ UNCHANGED <<s_pc, endpoint, task_queue_, inflight, sent, task, task2,
                 handled>>

\* std::thread server_thread(StartSendAndRecvServer, endpoint);
TestSpawnServer ==
  /\ c_pc = "spawn"
  /\ s_pc' = "init_tensors"
  /\ c_pc' = "wait_ready"
  /\ UNCHANGED notRpc
  /\ UNCHANGED <<endpoint, svc, task_queue_, inflight, sent, task, task2,
                 handled>>

\* b_rpc_service2->WaitServerReady();   blocks until the service is ready
TestWaitServerReady ==
  /\ c_pc = "wait_ready"
  /\ svc.ready
  /\ c_pc' = "set_micro"
  /\ UNCHANGED notRpc
  /\ UNCHANGED <<s_pc, endpoint, svc, task_queue_, inflight, sent, task,
                 task2, handled>>

\* b_rpc_service2->SetMicroBatchScopes(micro_scopes);
TestSetMicroBatchScopes ==
  /\ c_pc = "set_micro"
  /\ svc' = [svc EXCEPT !.micro_scopes = TRUE]
  /\ c_pc' = "set_mini"
  /\ UNCHANGED notRpc
  /\ UNCHANGED <<s_pc, endpoint, task_queue_, inflight, sent, task, task2,
                 handled>>

\* b_rpc_service2->SetMiniBatchScopes(mini_scopes);
TestSetMiniBatchScopes ==
  /\ c_pc = "set_mini"
  /\ svc' = [svc EXCEPT !.mini_scopes = TRUE]
  /\ c_pc' = "set_queue"
  /\ UNCHANGED notRpc
  /\ UNCHANGED <<s_pc, endpoint, task_queue_, inflight, sent, task, task2,
                 handled>>

\* (*task_queue_)[0] = make_shared<BlockingQueue>();  SetTaskQueue(task_queue_)
TestSetTaskQueue ==
  /\ c_pc = "set_queue"
  /\ svc' = [svc EXCEPT !.task_queue = TRUE]
  /\ task_queue_' = <<>>
  /\ c_pc' = "run_program"
  /\ UNCHANGED notRpc
  /\ UNCHANGED <<s_pc, endpoint, inflight, sent, task, task2, handled>>

\* exe.RunPreparedContext(prepared.get(), scope, false): the ops of the root
\* block run in program order, each sending its request to next_endpoints.
TestRunOp ==
  /\ c_pc = "run_program"
  /\ Len(sent) < Cardinality(ProgramOps)
  /\ LET op == Len(sent) + 1 IN
       /\ sent' = Append(sent, op)
       /\ inflight' = inflight \cup {Request(op)}
  /\ c_pc' = IF Len(sent) + 1 = Cardinality(ProgramOps) THEN "pop1"
             ELSE "run_program"
  /\ UNCHANGED notRpc
  /\ UNCHANGED <<s_pc, endpoint, svc, task_queue_, task, task2, handled>>

\* auto task = (*task_queue_)[0]->Pop();   blocks while the queue is empty
TestPop1 ==
  /\ c_pc = "pop1"
  /\ task_queue_ # <<>>
  /\ task' = Head(task_queue_)
  /\ task_queue_' = Tail(task_queue_)
  /\ c_pc' = "enforce1"
  /\ UNCHANGED notRpc
  /\ UNCHANGED <<s_pc, endpoint, svc, inflight, sent, task2, handled>>

\* the first check followed at once by Stop
TestEnforce1_stop ==
  /\ c_pc = "enforce1"
  /\ c_pc' = IF task[1] = "x" THEN "stop" ELSE "failed"
  /\ UNCHANGED notRpc
  /\ UNCHANGED <<s_pc, endpoint, svc, task_queue_, inflight, sent, task,
                 task2, handled>>

\* PADDLE_ENFORCE_EQ(task.first, "x", ...)
TestEnforce1 ==
  /\ c_pc = "enforce1"
  /\ c_pc' = IF task[1] = "x" THEN "pop2" ELSE "failed"
  /\ UNCHANGED notRpc
  /\ UNCHANGED <<s_pc, endpoint, svc, task_queue_, inflight, sent, task,
                 task2, handled>>

\* auto task2 = (*task_queue_)[0]->Pop();
TestPop2 ==
  /\ c_pc = "pop2"
  /\ task_queue_ # <<>>
  /\ task2' = Head(task_queue_)
  /\ task_queue_' = Tail(task_queue_)
  /\ c_pc' = "enforce2"
  /\ UNCHANGED notRpc
  /\ UNCHANGED <<s_pc, endpoint, svc, inflight, sent, task, handled>>

\* PADDLE_ENFORCE_EQ(task2.first, "x", ...)
TestEnforce2 ==
  /\ c_pc = "enforce2"
  /\ c_pc' = IF task2[1] = "x" THEN "stop" ELSE "failed"
  /\ UNCHANGED notRpc
  /\ UNCHANGED <<s_pc, endpoint, svc, task_queue_, inflight, sent, task,
                 task2, handled>>

\* b_rpc_service2->Stop();
TestStop ==
  /\ c_pc = "stop"
  /\ svc' = [svc EXCEPT !.stopped = TRUE, !.ready = FALSE]
  /\ c_pc' = "join"
  /\ UNCHANGED notRpc
  /\ UNCHANGED <<s_pc, endpoint, task_queue_, inflight, sent, task, task2,
                 handled>>

\* server_thread.join();
TestJoin ==
  /\ c_pc = "join"
  /\ s_pc = "exited"
  /\ c_pc' = "done"
  /\ UNCHANGED notRpc
  /\ UNCHANGED <<s_pc, endpoint, svc, task_queue_, inflight, sent, task,
                 task2, handled>>

\* ---- server_thread: StartSendAndRecvServer(endpoint) ----

\* AppendSendAndRecvBlock(&program); InitTensorsOnServer(&scope, &place, 10);
ServerInitTensors ==
  /\ s_pc = "init_tensors"
  /\ s_pc' = "set_endpoint"
  /\ UNCHANGED notRpc
  /\ UNCHANGED <<c_pc, endpoint, svc, task_queue_, inflight, sent, task,
                 task2, handled>>

\* b_rpc_service2 = HeterServer::GetInstance(); SetEndPoint(endpoint);
ServerSetEndPoint ==
  /\ s_pc = "set_endpoint"
  /\ svc' = [svc EXCEPT !.instance = TRUE, !.endpoint = endpoint]
  /\ s_pc' = "register"
  /\ UNCHANGED notRpc
  /\ UNCHANGED <<c_pc, endpoint, task_queue_, inflight, sent, task, task2,
                 handled>>

\* b_rpc_service2->RegisterServiceHandler(in_var_name, lambda);
ServerRegisterServiceHandler ==
  /\ s_pc = "register"
  /\ svc' = [svc EXCEPT !.handler = in_var_name]
  /\ s_pc' = "set_handler"
  /\ UNCHANGED notRpc
  /\ UNCHANGED <<c_pc, endpoint, task_queue_, inflight, sent, task, task2,
                 handled>>

\* b_rpc_service2->SetServiceHandler(b_req_handler);
ServerSetServiceHandler ==
  /\ s_pc = "set_handler"
  /\ svc' = [svc EXCEPT !.req_handler = TRUE]
  /\ s_pc' = "run_server"
  /\ UNCHANGED notRpc
  /\ UNCHANGED <<c_pc, endpoint, task_queue_, inflight, sent, task, task2,
                 handled>>

\* RunServer(b_rpc_service2): service->StartHeterService() starts serving on
\* the end point and reports the server ready ...
StartHeterService ==
  /\ s_pc = "run_server"
  /\ svc' = [svc EXCEPT !.ready = TRUE]
  /\ s_pc' = "serving"
  /\ UNCHANGED notRpc
  /\ UNCHANGED <<c_pc, endpoint, task_queue_, inflight, sent, task, task2,
                 handled>>

\* ... and blocks until Stop(); then StartSendAndRecvServer returns.
StartHeterServiceReturn ==
  /\ s_pc = "serving"
  /\ svc.stopped
  /\ s_pc' = "exited"
  /\ UNCHANGED notRpc
  /\ UNCHANGED <<c_pc, endpoint, svc, task_queue_, inflight, sent, task,
                 task2, handled>>

\* The service serves one request: the handler registered under the
\* request's message name runs and a task <<message name, microbatch id>>
\* is pushed on the task queue of mini-batch 0.
Handle(req) ==
  /\ s_pc = "serving"
  /\ ~svc.stopped
  /\ svc.task_queue
  /\ req \in inflight
  /\ inflight' = inflight \ {req}
  /\ task_queue_' = Append(task_queue_, <<req.message_name, req.micro_id>>)
  /\ handled' = handled + 1
  /\ UNCHANGED notRpc
  /\ UNCHANGED <<c_pc, s_pc, endpoint, svc, sent, task, task2>>

ServerHandle == \E req \in inflight : Handle(req)

ClientStep ==
  \/ TestGetIpPort \/ TestGetInstance \/ TestSpawnServer
  \/ TestWaitServerReady \/ TestSetMicroBatchScopes
  \/ TestSetMiniBatchScopes \/ TestSetTaskQueue \/ TestRunOp
  \/ TestPop1 \/ TestEnforce1 \/ TestPop2 \/ TestEnforce2
  \/ TestStop \/ TestJoin

ServerStep ==
  \/ ServerInitTensors \/ ServerSetEndPoint \/ ServerRegisterServiceHandler
  \/ ServerSetServiceHandler \/ StartHeterService \/ StartHeterServiceReturn

NextRpc == ClientStep \/ ServerStep \/ ServerHandle

SpecRpc == InitRpc /\ [][NextRpc]_vars

\* The threads of the scenario are scheduled by the operating system: the
\* main thread, server_thread and the service's worker each keep running
\* while they have a step to take.
SpecRpcFair ==
  SpecRpc /\ WF_vars(ClientStep) /\ WF_vars(ServerStep) /\ WF_vars(ServerHandle)

\* C1: in the SENDANDRECV scenario the two successive Pop calls on task
\* queue 0 each eventually return, and the name (first component) of each
\* returned task is "x".
C1_PopsReturnX ==
  /\ <>(task # NoTask /\ task2 # NoTask)
  /\ [](task # NoTask => task[1] = "x")
  /\ [](task2 # NoTask => task2[1] = "x")

\* both Pop calls have returned and both checks of the test have passed
C1_Witness ==
  /\ c_pc = "stop" /\ Len(sent) = 2 /\ handled = 2
  /\ task # NoTask /\ task2 # NoTask

\* C25: in the SENDANDRECV scenario Stop is called on the server only
\* after both tasks have been popped from task queue 0, when no request is
\* pending any more; after Stop the blocking StartHeterService call
\* returns, server_thread ends and server_thread.join() completes; the
\* request handler is never invoked after StartSendAndRecvServer has
\* returned.
C25_StopAndJoin ==
  /\ [](svc.stopped =>
          /\ task # NoTask /\ task2 # NoTask
          /\ inflight = {} /\ handled = Cardinality(ProgramOps))
  /\ svc.stopped ~> (s_pc = "exited" /\ c_pc = "done")
  /\ [][s_pc = "exited" => handled' = handled]_vars

\* the test body has ended: Stop was called after both Pops, the server
\* thread has returned and was joined
C25_Witness ==
  /\ c_pc = "done" /\ s_pc = "exited" /\ svc.stopped
  /\ task = <<"x", 0>> /\ task2 = <<"x", 0>> /\ handled = 2

(***************************************************************************)
(* Arithmetic of the element type T.  A value is a pair <<n, d>>: the      *)
(* fraction n/d in lowest terms with d > 0, or <<1, 0>> for +infinity,     *)
(* <<-1, 0>> for -infinity and <<0, 0>> for NaN.  Rounding is not          *)
(* modelled.                                                               *)
(***************************************************************************)
RECURSIVE GCD(_, _)
GCD(a, b) == IF b = 0 THEN a ELSE GCD(b, a % b)

Abs(n) == IF n < 0 THEN -n ELSE n
Sgn(n) == IF n > 0 THEN 1 ELSE IF n < 0 THEN -1 ELSE 0

Norm(v) ==
  IF v[2] = 0 THEN <<Sgn(v[1]), 0>>
  ELSE LET g == GCD(Abs(v[1]), Abs(v[2])) IN
         <<(Sgn(v[2]) * v[1]) \div g, Abs(v[2]) \div g>>

Rat(n) == <<n, 1>>
INFINITY == <<1, 0>>
NEG_INFINITY == <<-1, 0>>
NaN == <<0, 0>>

IsFinite(v) == v[2] # 0

Mul(a, b) == Norm(<<a[1] * b[1], a[2] * b[2]>>)

Add(a, b) ==
  IF a = NaN \/ b = NaN THEN NaN
  ELSE IF ~IsFinite(a) /\ ~IsFinite(b) THEN (IF a = b THEN a ELSE NaN)
  ELSE IF ~IsFinite(a) THEN a
  ELSE IF ~IsFinite(b) THEN b
  ELSE Norm(<<a[1] * b[2] + b[1] * a[2], a[2] * b[2]>>)

Neg(a) == <<-a[1], a[2]>>

\* 1 / a
Inv(a) ==
  IF a = NaN THEN NaN
  ELSE IF ~IsFinite(a) THEN Rat(0)
  ELSE IF a[1] = 0 THEN INFINITY
  ELSE Norm(<<a[2], a[1]>>)

Div(a, b) == Mul(a, Inv(b))

\* pow(base, exponent) for an exponent that is a whole number; pow(b, 0) = 1
\* for every b.
RECURSIVE PowInt(_, _)
PowInt(base, e) ==
  IF e = 0 THEN Rat(1)
  ELSE IF e < 0 THEN Inv(PowInt(base, -e))
  ELSE Mul(base, PowInt(base, e - 1))

pow(base, exponent) == PowInt(base, exponent[1])

\* (T(0) < val) - (val < T(0))
inline_sgn(val) ==
  IF val = NaN THEN Rat(0) ELSE Rat(Sgn(val[1]))

inline_abs(x) == <<Abs(x[1]), x[2]>>

\* static_cast<T>(a == b)
EqT(a, b) == IF a # NaN /\ b # NaN /\ a = b THEN Rat(1) ELSE Rat(0)

(***************************************************************************)
(* p-norm gradient: tensors                                                *)
(* x has shape xdims (rank 2) and is stored row-major; out and out_grad    *)
(* have shape outdims.                                                     *)
(***************************************************************************)
Numel(dims) == IF Len(dims) = 0 THEN 1
               ELSE IF Len(dims) = 1 THEN dims[1] ELSE dims[1] * dims[2]

\* coordinates (0-based) of the k-th element (1-based) of a row-major tensor
RowOf(k, dims) == (k - 1) \div dims[2]
ColOf(k, dims) == (k - 1) % dims[2]

\* shape of out for a p_norm over x: the whole tensor when asvector, else
\* the dimension `axis` reduced (kept as 1 when keepdim)
OutDims(xdims, axis, keepdim, asvector) ==
  LET a == IF axis < 0 THEN axis + Len(xdims) ELSE axis IN
    IF asvector THEN (IF keepdim THEN <<1, 1>> ELSE <<1>>)
    ELSE IF keepdim THEN [xdims EXCEPT ![a + 1] = 1]
    ELSE <<xdims[2 - a]>>

\* funcs::BroadcastKernel: the element of input t (shape tdims, rank <= 2)
\* that is combined with element (i, j) of the output.  A lower-rank input
\* is aligned at dimension `align` (-1: at the trailing dimensions).
BroadcastRead(t, tdims, align, i, j) ==
  LET full == IF Len(tdims) = 2 THEN tdims
              ELSE IF align = 0 THEN <<tdims[1], 1>>
              ELSE <<1, tdims[1]>>
      ii == IF full[1] = 1 THEN 0 ELSE i
      jj == IF full[2] = 1 THEN 0 ELSE j
  IN t[ii * full[2] + jj + 1]

\* funcs::BroadcastKernel over {x, y, dy}: for each output element the
\* operands <<x, y, dy>> the ternary functor is applied to
BroadcastKernel(x, xdims, y, dy, ydims, align) ==
  [k \in 1..Len(x) |->
     <<x[k],
       BroadcastRead(y, ydims, align, RowOf(k, xdims), ColOf(k, xdims)),
       BroadcastRead(dy, ydims, align, RowOf(k, xdims), ColOf(k, xdims))>>]

\* funcs::LaunchReduceGradKernel: y and dy are broadcast over the reduced
\* dimensions dims = {axis} (over everything when reduce_all); for each
\* output element the operands <<x, y, dy>> of the functor
LaunchReduceGradKernel(x, xdims, y, dy, axis, reduce_all) ==
  [k \in 1..Len(x) |->
     LET s == IF reduce_all THEN 0
              ELSE IF axis = 1 THEN RowOf(k, xdims) ELSE ColOf(k, xdims)
     IN <<x[k], y[s + 1], dy[s + 1]>>]

\* phi::funcs::SetConstant
SetConstant(n, v) == [k \in 1..n |-> v]

(***************************************************************************)
(* unnamed/part_001: functors                                              *)
(***************************************************************************)
InfinityNormGradScalarDirectCUDAFunctor(y0_, dy0_, x) ==
  Mul(Mul(dy0_, inline_sgn(x)), EqT(inline_abs(x), y0_))

InfinityNormGradTensorDirectCUDAFunctor_nomask(x, y, dy) ==
  Mul(dy, inline_sgn(x))

InfinityNormGradTensorDirectCUDAFunctor(x, y, dy) ==
  Mul(Mul(dy, inline_sgn(x)), EqT(inline_abs(x), y))

OneNormGradScalarDirectCUDAFunctor(dy0_, x) == Mul(dy0_, inline_sgn(x))

OneNormGradTensorDirectCUDAFunctor(x, y, dy) == Mul(dy, inline_sgn(x))

\* the functor with scalar_(dy[0] / y[0])
TwoNormGradScalarDirectCUDAFunctor_noeps(y0, dy0, epsilon, x) ==
  Mul(Div(dy0, y0), x)

\* scalar_(dy[0] / (y[0] + epsilon));  operator(): scalar_ * x
TwoNormGradScalarDirectCUDAFunctor(y0, dy0, epsilon, x) ==
  Mul(Div(dy0, Add(y0, epsilon)), x)

TwoNormGradTensorDirectCUDAFunctor(epsilon_, x, y, dy) ==
  Div(Mul(dy, x), Add(y, epsilon_))

\* the scalar functor with scalar_(dy[0] * pow(y[0], -1 * porder_))
PNormGradScalarDirectCUDAFunctor_noeps(y0, dy0, epsilon, porder, x) ==
  LET porder_ == Add(porder, Rat(-1))
      scalar_ == Mul(dy0, pow(y0, Mul(Rat(-1), porder_)))
  IN Mul(Mul(inline_sgn(x), pow(inline_abs(x), porder_)), scalar_)

\* porder_(porder - 1), scalar_(dy[0] * pow(y[0] + epsilon, -1 * porder_))
PNormGradScalarDirectCUDAFunctor(y0, dy0, epsilon, porder, x) ==
  LET porder_ == Add(porder, Rat(-1))
      scalar_ == Mul(dy0, pow(Add(y0, epsilon), Mul(Rat(-1), porder_)))
  IN Mul(Mul(inline_sgn(x), pow(inline_abs(x), porder_)), scalar_)

\* epsilon_(epsilon), porder_(porder - 1)
PNormGradTensorDirectCUDAFunctor(epsilon, porder, x, y, dy) ==
  LET porder_ == Add(porder, Rat(-1)) IN
    Mul(Mul(Mul(inline_sgn(x), pow(inline_abs(x), porder_)), dy),
        pow(Add(y, epsilon), Mul(Rat(-1), porder_)))

(***************************************************************************)
(* unnamed/part_001: PNormGradKernel.  The result is the content of        *)
(* x_grad and the functors launched.                                       *)
(***************************************************************************)
KernelResult(x_grad, launched) == [x_grad |-> x_grad, launched |-> launched]

\* the shape out_copy / out_grad_copy are resized to when !keepdim
ResizedDims(xdims, outdims, axis) ==
  LET a == IF axis < 0 THEN axis + Len(xdims) ELSE axis IN
    [i \in 1..Len(xdims) |->
       IF i - 1 < a THEN outdims[i]
       ELSE IF i - 1 = a THEN 1 ELSE outdims[i - 1]]

\* the branch of PNormGradKernel for an out of more than one element, after
\* out_copy and out_grad_copy have been resized to dims: inputs
\* {x, out_copy, out_grad_copy}, one BroadcastKernel per porder
BroadcastPath(x, xdims, out, out_grad, dims, porder, epsilon) ==
  LET ins == BroadcastKernel(x, xdims, out, out_grad, dims, -1) IN
    IF porder = INFINITY \/ porder = NEG_INFINITY THEN
      KernelResult(
        [k \in 1..Len(x) |-> InfinityNormGradTensorDirectCUDAFunctor(ins[k][1], ins[k][2], ins[k][3])],
        <<"InfinityNormGradTensorDirectCUDAFunctor">>)
    ELSE IF porder = Rat(1) THEN
      KernelResult(
        [k \in 1..Len(x) |-> OneNormGradTensorDirectCUDAFunctor(ins[k][1], ins[k][2], ins[k][3])],
        <<"OneNormGradTensorDirectCUDAFunctor">>)
    ELSE IF porder = Rat(2) THEN
      KernelResult(
        [k \in 1..Len(x) |-> TwoNormGradTensorDirectCUDAFunctor(epsilon, ins[k][1], ins[k][2], ins[k][3])],
        <<"TwoNormGradTensorDirectCUDAFunctor">>)
    ELSE
      KernelResult(
        [k \in 1..Len(x) |-> PNormGradTensorDirectCUDAFunctor(epsilon, porder, ins[k][1], ins[k][2], ins[k][3])],
        <<"PNormGradTensorDirectCUDAFunctor">>)

\* the kernel without the `return` that ends the porder == 0 case
PNormGradKernel_noreturn(x, xdims, out, out_grad, outdims, porder, axis, epsilon, keepdim) ==
  LET F(v) == PNormGradScalarDirectCUDAFunctor(out[1], out_grad[1], epsilon,
                                               porder, v)
      G(a, b, c) == PNormGradTensorDirectCUDAFunctor(epsilon, porder, a, b, c)
      dims == IF ~keepdim THEN ResizedDims(xdims, outdims, axis) ELSE outdims
  IN IF Numel(outdims) = 1
     THEN KernelResult([k \in 1..Len(x) |-> F(x[k])],
                       <<"SetConstant", "PNormGradScalarDirectCUDAFunctor">>)
     ELSE KernelResult((LET ins == BroadcastKernel(x, xdims, out, out_grad, dims, -1) IN
            [k \in 1..Len(x) |-> G(ins[k][1], ins[k][2], ins[k][3])]),
                       <<"SetConstant", "PNormGradTensorDirectCUDAFunctor">>)

PNormGradKernel(x, xdims, out, out_grad, outdims, porder, axis, epsilon, keepdim) ==
  IF porder = Rat(0) THEN
    KernelResult(SetConstant(Len(x), Rat(0)), <<"SetConstant">>)
  ELSE IF Numel(outdims) = 1 THEN      \* reduce_all
    IF porder = INFINITY \/ porder = NEG_INFINITY THEN
      LET F(v) == InfinityNormGradScalarDirectCUDAFunctor(out[1], out_grad[1], v)
      IN KernelResult([k \in 1..Len(x) |-> F(x[k])],
                      <<"InfinityNormGradScalarDirectCUDAFunctor">>)
    ELSE IF porder = Rat(1) THEN
      LET F(v) == OneNormGradScalarDirectCUDAFunctor(out_grad[1], v)
      IN KernelResult([k \in 1..Len(x) |-> F(x[k])],
                      <<"OneNormGradScalarDirectCUDAFunctor">>)
    ELSE IF porder = Rat(2) THEN
      LET F(v) == TwoNormGradScalarDirectCUDAFunctor(out[1], out_grad[1],
                                                     epsilon, v)
      IN KernelResult([k \in 1..Len(x) |-> F(x[k])],
                      <<"TwoNormGradScalarDirectCUDAFunctor">>)
    ELSE
      LET F(v) == PNormGradScalarDirectCUDAFunctor(out[1], out_grad[1],
                                                   epsilon, porder, v)
      IN KernelResult([k \in 1..Len(x) |-> F(x[k])],
                      <<"PNormGradScalarDirectCUDAFunctor">>)
  ELSE
    LET dims == IF ~keepdim THEN ResizedDims(xdims, outdims, axis)
                ELSE outdims
    IN BroadcastPath(x, xdims, out, out_grad, dims, porder, epsilon)

(***************************************************************************)
(* unnamed/part_000: functors and PNormGradKernel                          *)
(***************************************************************************)
\* dx = dy.broadcast(dim) * x.sign() * (x.abs() == y.broadcast(dim))
AbsMaxAndMinGradFunctor(x, y, dy) ==
  Mul(Mul(dy, inline_sgn(x)), EqT(inline_abs(x), y))

\* sign(x) * pow(abs(x), porder_) * scalar_
PNormGradScalarDirectCUDAFunctor_000(scalar_, porder_, x) ==
  Mul(Mul(inline_sgn(x), pow(inline_abs(x), porder_)), scalar_)

\* sign(x) * pow(abs(x), porder_) * dy * pow(y + epsilon_, -1.0 * porder_)
PNormGradTensorDirectCUDAFunctor_000(epsilon_, porder_, x, y, dy) ==
  Mul(Mul(Mul(inline_sgn(x), pow(inline_abs(x), porder_)), dy),
      pow(Add(y, epsilon_), Mul(Rat(-1), porder_)))

\* the branch of PNormGradKernel for a finite porder and an out of more
\* than one element: BroadcastKernel over {x, out, out_grad}, aligned at
\* dimension 0
BroadcastPath_000(x, xdims, out, out_grad, outdims, porder, epsilon) ==
  LET ins == BroadcastKernel(x, xdims, out, out_grad, outdims, 0) IN
    KernelResult(
      [k \in 1..Len(x) |-> PNormGradTensorDirectCUDAFunctor_000(epsilon, porder, ins[k][1], ins[k][2], ins[k][3])],
      <<"PNormGradTensorDirectCUDAFunctor">>)

PNormGradKernel_000(x, xdims, out, out_grad, outdims, porder, axis, epsilon, keepdim) ==
  LET reduce_all == Numel(outdims) = 1
      axis_ == IF axis < 0 THEN Len(xdims) + axis ELSE axis
  IN
    IF porder = Rat(0) THEN
      KernelResult(SetConstant(Len(x), Rat(0)), <<"SetConstant">>)
    ELSE IF porder = INFINITY \/ porder = NEG_INFINITY THEN
      KernelResult(
        (LET ins == LaunchReduceGradKernel(x, xdims, out, out_grad, axis_, reduce_all) IN
            [k \in 1..Len(x) |-> AbsMaxAndMinGradFunctor(ins[k][1], ins[k][2], ins[k][3])]),
        <<"AbsMaxAndMinGradFunctor">>)
    ELSE IF reduce_all THEN
      LET scalar == Mul(out_grad[1],
                        pow(Add(out[1], epsilon), Mul(Rat(-1), porder)))
          F(v) == PNormGradScalarDirectCUDAFunctor_000(scalar, porder, v)
      IN KernelResult([k \in 1..Len(x) |-> F(x[k])],
                      <<"PNormGradScalarDirectCUDAFunctor">>)
    ELSE BroadcastPath_000(x, xdims, out, out_grad, outdims, porder, epsilon)

(***************************************************************************)
(* p-norm gradient: the calls                                              *)
(***************************************************************************)
XShapes == {<<2, 2>>}
XVals == {-2, 0, 1}
\* <<y, dy>> of one slice: the norm and its upstream gradient
SliceVals == {<<1, 1>>, <<2, -3>>, <<0, 1>>, <<0, 0>>}
PorderVals == {Rat(0), Rat(1), Rat(2), Rat(3), Rat(-1), INFINITY, NEG_INFINITY}
EpsilonVals == {Rat(0), Rat(1)}
AxisVals == {0, -1}

Tensors(n, vals) == [1..n -> {Rat(v) : v \in vals}]

PNormArgs ==
  {a \in [xdims : XShapes, porder : PorderVals, axis : AxisVals,
          epsilon : EpsilonVals, keepdim : BOOLEAN, asvector : BOOLEAN,
          kernel : {"PNormGradKernel"}] : TRUE}

InitPNorm == PNormIdle /\ RpcIdle /\ PoolIdle /\ ArgmaxIdle /\ IsgIdle

CallPNorm(build, a, x, out, out_grad) ==
  LET outdims == OutDims(a.xdims, a.axis, a.keepdim, a.asvector)
      r == IF build = "part_000"
           THEN PNormGradKernel_000(x, a.xdims, out, out_grad, outdims,
                                    a.porder, a.axis, a.epsilon, a.keepdim)
           ELSE PNormGradKernel(x, a.xdims, out, out_grad, outdims,
                                a.porder, a.axis, a.epsilon, a.keepdim)
  IN /\ pn_build' = build
     /\ pn_in' = [kernel |-> a.kernel, x |-> x, xdims |-> a.xdims,
                  out |-> out, out_grad |-> out_grad, outdims |-> outdims,
                  porder |-> a.porder, axis |-> a.axis,
                  epsilon |-> a.epsilon, keepdim |-> a.keepdim,
                  asvector |-> a.asvector]
     /\ pn_x_grad' = r.x_grad
     /\ pn_launched' = r.launched
     /\ UNCHANGED notPn

PNormCalls(build) ==
  \E a \in PNormArgs :
    LET n == Numel(OutDims(a.xdims, a.axis, a.keepdim, a.asvector)) IN
      \E x \in Tensors(Numel(a.xdims), XVals), sl \in [1..n -> SliceVals] :
        CallPNorm(build, a, x, [k \in 1..n |-> Rat(sl[k][1])],
                  [k \in 1..n |-> Rat(sl[k][2])])

\* PNormGradKernel of unnamed/part_000
CallPNormGradKernel_000 == pn_build = "none" /\ PNormCalls("part_000")

\* PNormGradKernel of unnamed/part_001
CallPNormGradKernel == pn_build = "none" /\ PNormCalls("part_001")

NextPNorm == CallPNormGradKernel_000 \/ CallPNormGradKernel

SpecPNorm == InitPNorm /\ [][NextPNorm]_vars

(***************************************************************************)
(* p-norm gradient: properties                                             *)
(***************************************************************************)
PNormCalled == pn_build # "none"

\* the slice (1-based index into out / out_grad) element k of x belongs to
SliceOf(k) ==
  LET a == IF pn_in.axis < 0 THEN pn_in.axis + Len(pn_in.xdims)
           ELSE pn_in.axis
  IN IF pn_in.asvector THEN 1
     ELSE IF a = 1 THEN RowOf(k, pn_in.xdims) + 1
     ELSE ColOf(k, pn_in.xdims) + 1

\* sign(x) |x|^(p-1) dy (|y| + epsilon)^(1-p)
GradFormula(x, y, dy, p, epsilon) ==
  Mul(Mul(Mul(inline_sgn(x), PowInt(inline_abs(x), p[1] - 1)), dy),
      PowInt(Add(inline_abs(y), epsilon), 1 - p[1]))

FinitePorder == IsFinite(pn_in.porder) /\ pn_in.porder # Rat(0)

GradFormulaHolds ==
  \A k \in 1..Len(pn_in.x) :
    pn_x_grad[k] = GradFormula(pn_in.x[k], pn_in.out[SliceOf(k)],
                               pn_in.out_grad[SliceOf(k)], pn_in.porder,
                               pn_in.epsilon)

\* C2: for every finite porder p other than 0, PNormGradKernel writes
\* sign(x) |x|^(p-1) dy (|y| + epsilon)^(1-p) to each element of x_grad,
\* y and dy being out and out_grad of the element's slice, on the
\* reduce-all path and on the broadcast path.
C2_PNormGradFormula == (PNormCalled /\ FinitePorder) => GradFormulaHolds

\* The kernel of unnamed/part_001 alone writes the formula.
PNormGradFormula_part_001 ==
  (pn_build = "part_001" /\ FinitePorder) => GradFormulaHolds

\* C3: when porder == 0 PNormGradKernel sets every element of x_grad to 0,
\* whatever the other arguments are, and launches none of the gradient
\* functors.
C3_PorderZero ==
  (PNormCalled /\ pn_in.porder = Rat(0)) =>
    /\ Len(pn_x_grad) = Len(pn_in.x)
    /\ \A k \in 1..Len(pn_x_grad) : pn_x_grad[k] = Rat(0)
    /\ pn_launched = <<"SetConstant">>

\* a call with porder == 0 on an input with a non-zero element, made with
\* the kernel of unnamed/part_001 on the broadcast path
C3_Witness ==
  /\ pn_build = "part_001" /\ pn_in.porder = Rat(0)
  /\ \E k \in 1..Len(pn_in.x) : pn_in.x[k] # Rat(0)
  /\ Len(pn_in.out) > 1
  /\ pn_x_grad = SetConstant(Len(pn_in.x), Rat(0))

InfinitePorder == pn_in.porder = INFINITY \/ pn_in.porder = NEG_INFINITY

\* C4: when porder is +infinity or -infinity, each element of x_grad is
\* dy sign(x) if |x| equals the norm y of its slice and 0 otherwise; every
\* element that ties with y gets the full dy, and both infinities follow
\* the same rule.
C4_InfinityNorm ==
  (PNormCalled /\ InfinitePorder) =>
    \A k \in 1..Len(pn_in.x) :
      pn_x_grad[k] =
        IF inline_abs(pn_in.x[k]) = pn_in.out[SliceOf(k)]
        THEN Mul(pn_in.out_grad[SliceOf(k)], inline_sgn(pn_in.x[k]))
        ELSE Rat(0)

\* porder == -infinity on the broadcast path of unnamed/part_001: two
\* elements of one slice tie with its norm and both get the full dy, while
\* an element of the other slice gets 0
C4_Witness ==
  /\ pn_build = "part_001" /\ pn_in.porder = NEG_INFINITY
  /\ Len(pn_in.out) = 2
  /\ \E k, l, m \in 1..Len(pn_in.x) :
       /\ k # l /\ SliceOf(k) = SliceOf(l) /\ SliceOf(m) # SliceOf(k)
       /\ pn_in.x[k] = pn_in.x[l]
       /\ inline_abs(pn_in.x[k]) = pn_in.out[SliceOf(k)]
       /\ pn_in.out_grad[SliceOf(k)] = Rat(-3) /\ pn_in.x[k] = Rat(-2)
       /\ pn_x_grad[k] = Rat(3) /\ pn_x_grad[l] = Rat(3)
       /\ pn_in.x[m] # Rat(0) /\ pn_x_grad[m] = Rat(0)

\* sign(x) |x|^(p-1) dy (y + epsilon)^(1-p)
GeneralFormula(x, y, dy, p, epsilon) ==
  Mul(Mul(Mul(inline_sgn(x), PowInt(inline_abs(x), p[1] - 1)), dy),
      PowInt(Add(y, epsilon), 1 - p[1]))

\* a call of the kernel of unnamed/part_001 with porder 1 or 2
SpecializedCall ==
  pn_build = "part_001" /\ pn_in.porder \in {Rat(1), Rat(2)}

\* C22: the functors for porder 1 and 2 agree with the general formula
\* sign(x) |x|^(p-1) dy (y + epsilon)^(1-p) and with the general functors:
\* for p = 1 every element of x_grad is dy sign(x), for p = 2 it is
\* dy x / (y + epsilon), for every x (0 included), y and dy, on the scalar
\* (reduce-all) path and on the tensor (broadcast) path.
C22_SpecializedFunctors ==
  SpecializedCall =>
    \A k \in 1..Len(pn_in.x) :
      LET x == pn_in.x[k]
          y == pn_in.out[SliceOf(k)]
          dy == pn_in.out_grad[SliceOf(k)]
          p == pn_in.porder
          eps == pn_in.epsilon
      IN /\ pn_x_grad[k] = GeneralFormula(x, y, dy, p, eps)
         /\ pn_x_grad[k] = PNormGradTensorDirectCUDAFunctor(eps, p, x, y, dy)
         /\ pn_x_grad[k] = PNormGradScalarDirectCUDAFunctor(y, dy, eps, p, x)
         /\ p = Rat(1) => pn_x_grad[k] = Mul(dy, inline_sgn(x))
         /\ p = Rat(2) => pn_x_grad[k] = Div(Mul(dy, x), Add(y, eps))

\* porder 2 and epsilon 1 on the scalar path of unnamed/part_001 with
\* y = 2 and dy = -3: the element x = 0 gets 0 and the element x = -2 gets 2
C22_Witness ==
  /\ pn_build = "part_001" /\ pn_in.porder = Rat(2)
  /\ pn_in.epsilon = Rat(1) /\ Len(pn_in.out) = 1
  /\ pn_launched = <<"TwoNormGradScalarDirectCUDAFunctor">>
  /\ pn_in.out[1] = Rat(2) /\ pn_in.out_grad[1] = Rat(-3)
  /\ \E k, l \in 1..Len(pn_in.x) :
       /\ pn_in.x[k] = Rat(0) /\ pn_x_grad[k] = Rat(0)
       /\ pn_in.x[l] = Rat(-2) /\ pn_x_grad[l] = Rat(2)

\* out has exactly one element and porder is not 0
ReduceAllCall ==
  PNormCalled /\ Len(pn_in.out) = 1 /\ pn_in.porder # Rat(0)

\* the functors of the reduce-all path
ScalarFunctors ==
  {<<"InfinityNormGradScalarDirectCUDAFunctor">>,
   <<"OneNormGradScalarDirectCUDAFunctor">>,
   <<"TwoNormGradScalarDirectCUDAFunctor">>,
   <<"PNormGradScalarDirectCUDAFunctor">>}

\* C23: when out has exactly one element PNormGradKernel takes the
\* reduce-all path, and for every porder branch (+-infinity, 1, 2, general)
\* each element it writes is what the broadcast path writes for the same x
\* with y = out[0] and dy = out_grad[0].
C23_ReduceAll ==
  ReduceAllCall =>
    IF pn_build = "part_001"
    THEN /\ pn_launched \in ScalarFunctors
         /\ pn_x_grad =
              BroadcastPath(pn_in.x, pn_in.xdims, <<pn_in.out[1]>>,
                            <<pn_in.out_grad[1]>>, <<1, 1>>, pn_in.porder,
                            pn_in.epsilon).x_grad
    ELSE FinitePorder =>
         /\ pn_launched = <<"PNormGradScalarDirectCUDAFunctor">>
         /\ pn_x_grad =
              BroadcastPath_000(pn_in.x, pn_in.xdims, <<pn_in.out[1]>>,
                                <<pn_in.out_grad[1]>>, <<1, 1>>,
                                pn_in.porder, pn_in.epsilon).x_grad

\* porder 3 and epsilon 1 on the reduce-all path of unnamed/part_001 with
\* out = 2 and out_grad = -3: the element x = -2 gets 4/3
C23_Witness ==
  /\ pn_build = "part_001" /\ pn_in.porder = Rat(3)
  /\ pn_in.epsilon = Rat(1) /\ Len(pn_in.out) = 1
  /\ pn_launched = <<"PNormGradScalarDirectCUDAFunctor">>
  /\ pn_in.out[1] = Rat(2) /\ pn_in.out_grad[1] = Rat(-3)
  /\ \E k \in 1..Len(pn_in.x) :
       pn_in.x[k] = Rat(-2) /\ pn_x_grad[k] = <<4, 3>>

(***************************************************************************)
(* paddle/phi/kernels/impl/pool_kernel_impl.h                              *)
(* A tensor is represented by its dims.  A kernel call yields the functor  *)
(* invocations it made (with the arguments handed over) and the exception  *)
(* it raised.                                                              *)
(***************************************************************************)
InvalidArgument(msg) == [type |-> "InvalidArgument", msg |-> msg]

PoolResult(calls, err) == [calls |-> calls, err |-> err]

PADDLE_THROW(err) == PoolResult(<<>>, err)

\* one functor invocation; fields a functor does not take are left at
\* <<>>, FALSE, "" and 0
FunctorCall(functor, process, kernel_size, strides, paddings, data_format, exclusive, adaptive, norm_type, dilations) ==
  [functor |-> functor, process |-> process, kernel_size |-> kernel_size,
   strides |-> strides, paddings |-> paddings, data_format |-> data_format,
   exclusive |-> exclusive, adaptive |-> adaptive, norm_type |-> norm_type,
   dilations |-> dilations, reduce_dim |-> <<>>, reduce_num |-> 0,
   output_size |-> <<>>]

\* funcs::ReduceKernel<T, T, kps::AddFunctor, kps::DivideFunctor<T>>
ReduceCall(reduce_num, reduce_dim) ==
  [FunctorCall("ReduceKernel", "AddFunctor/DivideFunctor", <<>>, <<>>, <<>>,
               "", FALSE, FALSE, Rat(0), <<>>)
     EXCEPT !.reduce_dim = reduce_dim, !.reduce_num = reduce_num]

\* slice_ddim(dims, begin, end): the dims at positions begin .. end-1
slice_ddim(dims, begin, end) == SubSeq(dims, begin + 1, end)

\* std::vector::erase(begin() + i)
Erase(v, i) == SubSeq(v, 1, i) \o SubSeq(v, i + 2, Len(v))

\* a + b in an int: the sum of two 32-bit two's complement values, wrapped
AddInt32(a, b) ==
  IF a >= 0 /\ b >= 0 /\ a > ((2^30 - 1) + 2^30) - b
  THEN (((a - 2^30) + (b - 2^30)) - 2^30) - 2^30
  ELSE IF a < 0 /\ b < 0 /\ a < ((0 - 2^30) - 2^30) - b
  THEN (((a + 2^30) + (b + 2^30)) + 2^30) + 2^30
  ELSE a + b

\* the int64 product a * b stored in an int: the low 32 bits of the
\* product (b >= 0), by doubling
RECURSIVE MulInt32(_, _)
MulInt32(a, b) ==
  IF b = 0 THEN 0
  ELSE LET h == MulInt32(AddInt32(a, a), b \div 2)
       IN IF b % 2 = 1 THEN AddInt32(h, a) ELSE h

\* reduce_num is an int; input.dims() are int64_t
GetReduceNum(input_dims, output_dims, channel_last, reduce_dim) ==
  LET output_height == IF channel_last THEN output_dims[2] ELSE output_dims[3]
      output_width == IF channel_last THEN output_dims[3] ELSE output_dims[4]
  IN IF output_height = 1 /\ output_width = 1 THEN
       IF channel_last
       THEN [reduce_num |-> MulInt32(input_dims[2], input_dims[3]),
             reduce_dim |-> reduce_dim \o <<1, 2>>]
       ELSE [reduce_num |-> MulInt32(input_dims[3], input_dims[4]),
             reduce_dim |-> reduce_dim \o <<2, 3>>]
     ELSE [reduce_num |-> 0, reduce_dim |-> reduce_dim]

\* funcs::UpdatePadding is not part of the sources.  It returns the padding
\* list in one of the forms the caller provides for: with every entry
\* doubled in place (N entries become 2N), or as it was passed.
UpdatePaddingOutcomes == {"keep", "expand"}

UpdatePadding(paddings, outcome) ==
  IF outcome = "expand"
  THEN [i \in 1..(2 * Len(paddings)) |-> paddings[(i + 1) \div 2]]
  ELSE paddings

\* funcs::UpdateKernelSize is not part of the sources: the kernel size
\* becomes the spatial dims.
UpdateKernelSize(kernel_size, data_dims) == data_dims

\* const bool channel_last = (data_format == "NHWC" || data_format == "NDHWC")
ChannelLast(data_format) == data_format = "NHWC" \/ data_format = "NDHWC"

DataDims_nchw(x_dims, channel_last) == slice_ddim(x_dims, 2, Len(x_dims))

\* data_dims of PoolRawKernel
DataDims(x_dims, channel_last) ==
  IF channel_last THEN slice_ddim(x_dims, 1, Len(x_dims) - 1)
  ELSE slice_ddim(x_dims, 2, Len(x_dims))

RECURSIVE EraseLoop_even(_, _, _)
EraseLoop_even(paddings_, i, n) ==
  IF i < n THEN EraseLoop_even(Erase(paddings_, i), i + 1, n) ELSE paddings_

\* for (int i = 0; i < data_dims.size(); ++i)
\*   paddings_.erase(paddings_.begin() + i + 1);
RECURSIVE EraseLoop(_, _, _)
EraseLoop(paddings_, i, n) ==
  IF i < n THEN EraseLoop(Erase(paddings_, i + 1), i + 1, n) ELSE paddings_

\* if (data_dims.size() * 2 == paddings_.size()) { erase loop }
NormalizePaddings(paddings_, data_dims) ==
  IF Len(data_dims) * 2 = Len(paddings_)
  THEN EraseLoop(paddings_, 0, Len(data_dims))
  ELSE paddings_

TrueType_plain(pooling_type, norm_type) == pooling_type

\* true_type of PoolRawKernel
\* true_type with every infinite norm_type taken for "max"
TrueType_isinf(pooling_type, norm_type) ==
  IF norm_type \in {INFINITY, NEG_INFINITY} THEN "max" ELSE pooling_type

TrueType(pooling_type, norm_type) ==
  IF norm_type = INFINITY THEN "max" ELSE pooling_type

\* case 2 of the switch of PoolRawKernel
Pool2dCase(x_dims, out_dims, kernel_size_, strides, paddings_, exclusive, data_format, true_type, adaptive, norm_type, gpu) ==
  IF true_type = "max" THEN
    PoolResult(<<FunctorCall("Pool2dFunctor", "MaxPool", kernel_size_,
                             strides, paddings_, data_format, TRUE, FALSE,
                             Rat(0), <<>>)>>, NoError)
  ELSE IF true_type = "avg" THEN
    LET r == GetReduceNum(x_dims, out_dims, ChannelLast(data_format), <<>>)
    IN IF r.reduce_num > 0 /\ adaptive /\ gpu
       THEN PoolResult(<<ReduceCall(r.reduce_num, r.reduce_dim)>>, NoError)
       ELSE PoolResult(<<FunctorCall("Pool2dFunctor", "AvgPool",
                                     kernel_size_, strides, paddings_,
                                     data_format, exclusive, adaptive,
                                     Rat(0), <<>>)>>, NoError)
  ELSE
    PoolResult(<<FunctorCall("Pool2dFunctor", "LPPool", kernel_size_,
                             strides, paddings_, data_format, exclusive,
                             adaptive, norm_type, <<>>)>>, NoError)

\* case 3 with an lp branch that runs the 3D functor
Pool3dCase_lp(kernel_size_, strides, paddings_, exclusive, data_format, true_type, adaptive, norm_type) ==
  PoolResult(<<FunctorCall("Pool3dFunctor",
                           IF true_type = "max" THEN "MaxPool"
                           ELSE IF true_type = "avg" THEN "AvgPool"
                           ELSE "LPPool",
                           kernel_size_, strides, paddings_, data_format,
                           IF true_type = "max" THEN TRUE ELSE exclusive,
                           IF true_type = "max" THEN FALSE ELSE adaptive,
                           IF true_type \in {"max", "avg"} THEN Rat(0)
                           ELSE norm_type, <<>>)>>, NoError)

\* case 3 with a max branch that forwards exclusive and adaptive
Pool3dCase_forward(kernel_size_, strides, paddings_, exclusive, data_format, true_type, adaptive, norm_type) ==
  IF true_type \in {"max", "avg"} THEN
    PoolResult(<<FunctorCall("Pool3dFunctor",
                             IF true_type = "max" THEN "MaxPool"
                             ELSE "AvgPool",
                             kernel_size_, strides, paddings_, data_format,
                             exclusive, adaptive, Rat(0), <<>>)>>, NoError)
  ELSE
    PADDLE_THROW(InvalidArgument("LPPool op only supports 2D input."))

\* case 3 of the switch of PoolRawKernel
Pool3dCase(kernel_size_, strides, paddings_, exclusive, data_format, true_type, adaptive, norm_type) ==
  IF true_type = "max" THEN
    PoolResult(<<FunctorCall("Pool3dFunctor", "MaxPool", kernel_size_,
                             strides, paddings_, data_format, TRUE, FALSE,
                             Rat(0), <<>>)>>, NoError)
  ELSE IF true_type = "avg" THEN
    PoolResult(<<FunctorCall("Pool3dFunctor", "AvgPool", kernel_size_,
                             strides, paddings_, data_format, exclusive,
                             adaptive, Rat(0), <<>>)>>, NoError)
  ELSE
    PADDLE_THROW(InvalidArgument("LPPool op only supports 2D input."))

\* switch (kernel_size_.size()) of PoolRawKernel
PoolDispatch(x_dims, out_dims, kernel_size_, strides, paddings_, exclusive, data_format, true_type, adaptive, norm_type, gpu) ==
  IF Len(kernel_size_) = 2 THEN
    Pool2dCase(x_dims, out_dims, kernel_size_, strides, paddings_, exclusive,
               data_format, true_type, adaptive, norm_type, gpu)
  ELSE IF Len(kernel_size_) = 3 THEN
    Pool3dCase(kernel_size_, strides, paddings_, exclusive, data_format,
               true_type, adaptive, norm_type)
  ELSE
    PADDLE_THROW(InvalidArgument("Pool op only supports 2D and 3D input."))

\* PoolRawKernel with the norm_type check made after the switch
PoolRawKernel_latecheck(x_dims, out_dims, kernel_size, strides, paddings, exclusive, data_format, pooling_type, global_pooling, adaptive, norm_type, upd, gpu) ==
  LET channel_last == ChannelLast(data_format)
      data_dims == DataDims(x_dims, channel_last)
      true_type == TrueType(pooling_type, norm_type)
      paddings_ == NormalizePaddings(UpdatePadding(paddings, upd), data_dims)
      kernel_size_ == IF global_pooling
                      THEN UpdateKernelSize(kernel_size, data_dims)
                      ELSE kernel_size
      r == PoolDispatch(x_dims, out_dims, kernel_size_, strides, paddings_,
                        exclusive, data_format, true_type, adaptive,
                        norm_type, gpu)
  IN IF r.err = NoError /\ true_type = "lp" /\ norm_type = Rat(0)
     THEN [r EXCEPT
             !.err = InvalidArgument("norm_type of LPPool op cannot be 0.")]
     ELSE r

PoolRawKernel(x_dims, out_dims, kernel_size, strides, paddings, exclusive, data_format, pooling_type, global_pooling, adaptive, norm_type, upd, gpu) ==
  LET channel_last == ChannelLast(data_format)
      data_dims == DataDims(x_dims, channel_last)
      true_type == TrueType(pooling_type, norm_type)
      paddings_ == NormalizePaddings(UpdatePadding(paddings, upd), data_dims)
      kernel_size_ == IF global_pooling
                      THEN UpdateKernelSize(kernel_size, data_dims)
                      ELSE kernel_size
  IN IF true_type = "lp" /\ norm_type = Rat(0)
     THEN PADDLE_THROW(InvalidArgument("norm_type of LPPool op cannot be 0."))
     ELSE PoolDispatch(x_dims, out_dims, kernel_size_, strides, paddings_,
                       exclusive, data_format, true_type, adaptive,
                       norm_type, gpu)

\* global_pooling of MaxPoolWithIndexRawKernel:
\*   paddings_[i] = 0; kernel_size_[i] = x.dims()[i + 2];
GlobalKernelSize(kernel_size_, x_dims) ==
  [i \in 1..Len(kernel_size_) |-> x_dims[i + 2]]

GlobalPaddings(paddings_, kernel_size_) ==
  [i \in 1..Len(paddings_) |-> IF i <= Len(kernel_size_) THEN 0
                               ELSE paddings_[i]]

MaxPoolWithIndexRawKernel_nodefault(x_dims, kernel_size, strides, paddings, dilations, global_pooling, adaptive) ==
  PoolResult(<<FunctorCall("MaxPool2dWithIndexFunctor", "", kernel_size,
                           strides, paddings, "", FALSE, adaptive, Rat(0),
                           dilations)>>, NoError)

MaxPoolWithIndexRawKernel(x_dims, kernel_size, strides, paddings, dilations, global_pooling, adaptive) ==
  LET kernel_size_ == IF global_pooling
                      THEN GlobalKernelSize(kernel_size, x_dims)
                      ELSE kernel_size
      paddings_ == IF global_pooling
                   THEN GlobalPaddings(paddings, kernel_size)
                   ELSE paddings
  IN IF Len(kernel_size_) = 2 THEN
       PoolResult(<<FunctorCall("MaxPool2dWithIndexFunctor", "", kernel_size_,
                                strides, paddings_, "", FALSE, adaptive,
                                Rat(0), dilations)>>, NoError)
     ELSE IF Len(kernel_size_) = 3 THEN
       PoolResult(<<FunctorCall("MaxPool3dWithIndexFunctor", "", kernel_size_,
                                strides, paddings_, "", FALSE, adaptive,
                                Rat(0), dilations)>>, NoError)
     ELSE
       PADDLE_THROW(InvalidArgument("Pool op only supports 2D and 3D input."))

\* MaxPoolRawKernel with data_dims taken as PoolRawKernel takes them
MaxPoolRawKernel_channel_last(x_dims, kernel_size, strides, paddings, dilations, exclusive, data_format, pooling_type, global_pooling, adaptive, norm_type, upd) ==
  LET data_dims == DataDims(x_dims, ChannelLast(data_format))
      paddings_ == NormalizePaddings(UpdatePadding(paddings, upd), data_dims)
      kernel_size_ == IF global_pooling
                      THEN UpdateKernelSize(kernel_size, data_dims)
                      ELSE kernel_size
  IN IF Len(kernel_size_) = 2 THEN
       PoolResult(<<FunctorCall("MaxPool2dFunctor", "", kernel_size_, strides,
                                paddings_, "", TRUE, FALSE, Rat(0),
                                dilations)>>, NoError)
     ELSE IF Len(kernel_size_) = 3 THEN
       PoolResult(<<FunctorCall("Pool3dFunctor", "MaxPool", kernel_size_,
                                strides, paddings_, data_format, TRUE, FALSE,
                                Rat(0), <<>>)>>, NoError)
     ELSE
       PADDLE_THROW(
         InvalidArgument("MaxPool op only supports 2D and 3D input."))

MaxPoolRawKernel(x_dims, kernel_size, strides, paddings, dilations, exclusive, data_format, pooling_type, global_pooling, adaptive, norm_type, upd) ==
  LET data_dims == slice_ddim(x_dims, 2, Len(x_dims))
      paddings_ == NormalizePaddings(UpdatePadding(paddings, upd), data_dims)
      kernel_size_ == IF global_pooling
                      THEN UpdateKernelSize(kernel_size, data_dims)
                      ELSE kernel_size
  IN IF Len(kernel_size_) = 2 THEN
       PoolResult(<<FunctorCall("MaxPool2dFunctor", "", kernel_size_, strides,
                                paddings_, "", TRUE, FALSE, Rat(0),
                                dilations)>>, NoError)
     ELSE IF Len(kernel_size_) = 3 THEN
       PoolResult(<<FunctorCall("Pool3dFunctor", "MaxPool", kernel_size_,
                                strides, paddings_, data_format, TRUE, FALSE,
                                Rat(0), <<>>)>>, NoError)
     ELSE
       PADDLE_THROW(
         InvalidArgument("MaxPool op only supports 2D and 3D input."))

FractionalMaxPoolRawKernel(x_dims, output_size, kernel_size, return_mask) ==
  IF Len(output_size) = 2 THEN
    PoolResult(<<[FunctorCall("FractionalMaxPool2dFunctor", "", kernel_size,
                              <<>>, <<>>, "", FALSE, FALSE, Rat(0), <<>>)
                    EXCEPT !.output_size = output_size]>>, NoError)
  ELSE IF Len(output_size) = 3 THEN
    PoolResult(<<[FunctorCall("FractionalMaxPool3dFunctor", "", kernel_size,
                              <<>>, <<>>, "", FALSE, FALSE, Rat(0), <<>>)
                    EXCEPT !.output_size = output_size]>>, NoError)
  ELSE
    PADDLE_THROW(InvalidArgument("Pool op only supports 2D and 3D input."))

\* Pool2dKernel and Pool3dKernel pass norm_type 0
Pool2dKernel(x_dims, out_dims, kernel_size, strides, paddings, exclusive, data_format, pooling_type, global_pooling, adaptive, upd, gpu) ==
  PoolRawKernel(x_dims, out_dims, kernel_size, strides, paddings, exclusive,
                data_format, pooling_type, global_pooling, adaptive, Rat(0),
                upd, gpu)

Pool3dKernel(x_dims, out_dims, kernel_size, strides, paddings, exclusive, data_format, pooling_type, global_pooling, adaptive, upd, gpu) ==
  PoolRawKernel(x_dims, out_dims, kernel_size, strides, paddings, exclusive,
                data_format, pooling_type, global_pooling, adaptive, Rat(0),
                upd, gpu)

LPPool2dKernel(x_dims, out_dims, kernel_size, strides, paddings, exclusive, data_format, pooling_type, global_pooling, adaptive, norm_type, upd, gpu) ==
  PoolRawKernel(x_dims, out_dims, kernel_size, strides, paddings, exclusive,
                data_format, pooling_type, global_pooling, adaptive,
                norm_type, upd, gpu)

(***************************************************************************)
(* pooling kernels: the calls                                              *)
(***************************************************************************)
MaxKernelLen == 4
MaxPadLen == 6

Ranks == {4, 5}
KernelLens == 1..MaxKernelLen
PadLens == 2..MaxPadLen \ {5}
PoolingTypes == {"max", "avg", "lp", "sum"}
NormTypes == {Rat(0), Rat(2), INFINITY, NEG_INFINITY}
OutSpatials == {<<1, 1>>, <<1, 2>>, <<2, 1>>}

\* the dims of x: all different, so that every slice of them can be told
\* from every other
XDims(rank) == [i \in 1..rank |-> i + 1]

\* rank-4 dims of one image with one channel, channel-last and channel-first,
\* whose spatial extents have a product of 46341^2 (just above 2^31), of
\* 2^32 and of 2^32 + 2^16
LargeXDims ==
  {<<1, 46341, 46341, 1>>, <<1, 1, 46341, 46341>>,
   <<1, 65536, 65536, 1>>, <<1, 1, 65536, 65536>>,
   <<1, 65536, 65537, 1>>, <<1, 1, 65536, 65537>>}

\* the dims of x drawn for a call: the large ones only for a 2D call with
\* 2 kernel sizes and 2 paddings
XDimsOf(rank, l) ==
  IF rank = 4 /\ l = <<2, 2>> THEN {XDims(rank)} \cup LargeXDims
  ELSE {XDims(rank)}
Formats(rank) == IF rank = 4 THEN {"NCHW", "NHWC"} ELSE {"NCDHW", "NDHWC"}
KernelSizeOf(len) == [i \in 1..len |-> i + 6]
PaddingsOf(len) == [i \in 1..len |-> i]
StridesOf(rank) == [i \in 1..(rank - 2) |-> i]
DilationsOf(rank) == [i \in 1..(rank - 2) |-> i + 1]

\* the dims of out: those of x with the spatial extents replaced (the first
\* by os[1], the others by os[2])
OutDimsOf(x_dims, channel_last, os) ==
  LET first == IF channel_last THEN 2 ELSE 3
      last == IF channel_last THEN Len(x_dims) - 1 ELSE Len(x_dims)
  IN [i \in 1..Len(x_dims) |->
        IF i = first THEN os[1]
        ELSE IF i > first /\ i <= last THEN os[2] ELSE x_dims[i]]

PoolArgs0 ==
  [kernel |-> "none", x_dims |-> <<>>, out_dims |-> <<>>,
   kernel_size |-> <<>>, strides |-> <<>>, paddings |-> <<>>,
   dilations |-> <<>>, exclusive |-> FALSE, data_format |-> "",
   pooling_type |-> "", global_pooling |-> FALSE, adaptive |-> FALSE,
   norm_type |-> Rat(0), upd |-> "", gpu |-> FALSE, output_size |-> <<>>,
   return_mask |-> FALSE, reduce_dim |-> <<>>]

\* the arguments of PoolRawKernel and of the kernels that forward to it
PoolArgsOf(kernel, rank, f, l, b, t) ==
  [PoolArgs0 EXCEPT
     !.kernel = kernel, !.x_dims = XDims(rank),
     !.out_dims = OutDimsOf(XDims(rank), ChannelLast(f[1]), f[2]),
     !.data_format = f[1],
     !.kernel_size = KernelSizeOf(l[1]), !.paddings = PaddingsOf(l[2]),
     !.strides = StridesOf(rank),
     !.exclusive = b[1], !.global_pooling = b[2], !.adaptive = b[3],
     !.gpu = b[4], !.pooling_type = t[1], !.norm_type = t[2], !.upd = t[3]]

Flags == BOOLEAN \X BOOLEAN \X BOOLEAN \X BOOLEAN
Lens == KernelLens \X PadLens
\* Pool2dKernel, Pool3dKernel and LPPool2dKernel only forward their
\* arguments: they are called with paddings of one length and a 1x1 output
ForwardLens == KernelLens \X {2}
ForwardOuts == {<<1, 1>>}
Types(norm_types) == PoolingTypes \X norm_types \X UpdatePaddingOutcomes

InitPool == PoolIdle /\ RpcIdle /\ PNormIdle /\ ArgmaxIdle /\ IsgIdle

Returned(a, r) ==
  /\ pool_in' = a
  /\ pool_calls' = r.calls
  /\ pool_err' = r.err
  /\ pool_ret' = NoValue
  /\ UNCHANGED notPool

CallPoolRawKernel ==
  /\ pool_in = NoCall
  /\ \E rank \in Ranks, l \in Lens, b \in Flags, t \in Types(NormTypes) :
     \E f \in Formats(rank) \X OutSpatials, x_dims \in XDimsOf(rank, l) :
       LET a == [PoolArgsOf("PoolRawKernel", rank, f, l, b, t) EXCEPT
                   !.x_dims = x_dims,
                   !.out_dims = OutDimsOf(x_dims, ChannelLast(f[1]), f[2])]
       IN
       Returned(a, PoolRawKernel(a.x_dims, a.out_dims, a.kernel_size,
                                 a.strides, a.paddings, a.exclusive,
                                 a.data_format, a.pooling_type,
                                 a.global_pooling, a.adaptive, a.norm_type,
                                 a.upd, a.gpu))

CallPool2dKernel ==
  /\ pool_in = NoCall
  /\ \E rank \in Ranks, l \in ForwardLens, b \in Flags, t \in Types({Rat(0)}) :
     \E f \in Formats(rank) \X ForwardOuts :
       LET a == PoolArgsOf("Pool2dKernel", rank, f, l, b, t) IN
       Returned(a, Pool2dKernel(a.x_dims, a.out_dims, a.kernel_size,
                                a.strides, a.paddings, a.exclusive,
                                a.data_format, a.pooling_type,
                                a.global_pooling, a.adaptive, a.upd, a.gpu))

CallPool3dKernel ==
  /\ pool_in = NoCall
  /\ \E rank \in Ranks, l \in ForwardLens, b \in Flags, t \in Types({Rat(0)}) :
     \E f \in Formats(rank) \X ForwardOuts :
       LET a == PoolArgsOf("Pool3dKernel", rank, f, l, b, t) IN
       Returned(a, Pool3dKernel(a.x_dims, a.out_dims, a.kernel_size,
                                a.strides, a.paddings, a.exclusive,
                                a.data_format, a.pooling_type,
                                a.global_pooling, a.adaptive, a.upd, a.gpu))

CallLPPool2dKernel ==
  /\ pool_in = NoCall
  /\ \E rank \in Ranks, l \in ForwardLens, b \in Flags, t \in Types(NormTypes) :
     \E f \in Formats(rank) \X ForwardOuts :
       LET a == PoolArgsOf("LPPool2dKernel", rank, f, l, b, t) IN
       Returned(a, LPPool2dKernel(a.x_dims, a.out_dims, a.kernel_size,
                                  a.strides, a.paddings, a.exclusive,
                                  a.data_format, a.pooling_type,
                                  a.global_pooling, a.adaptive, a.norm_type,
                                  a.upd, a.gpu))

CallMaxPoolRawKernel ==
  /\ pool_in = NoCall
  /\ \E rank \in Ranks, l \in Lens, t \in Types(NormTypes),
        b \in BOOLEAN \X BOOLEAN \X BOOLEAN \X {FALSE} :
     \E f \in Formats(rank) \X ForwardOuts :
       LET a == PoolArgsOf("MaxPoolRawKernel", rank, f, l, b, t)
           d == [a EXCEPT !.dilations = DilationsOf(Len(a.x_dims)),
                          !.gpu = FALSE, !.out_dims = <<>>]
       IN Returned(d, MaxPoolRawKernel(d.x_dims, d.kernel_size, d.strides,
                                       d.paddings, d.dilations, d.exclusive,
                                       d.data_format, d.pooling_type,
                                       d.global_pooling, d.adaptive,
                                       d.norm_type, d.upd))

\* MaxPoolWithIndexRawKernel is called with as many paddings as kernel
\* sizes, and with global_pooling with no more kernel sizes than x has
\* dims after the first two.
CallMaxPoolWithIndexRawKernel ==
  /\ pool_in = NoCall
  /\ \E rank \in Ranks, len \in KernelLens, g \in BOOLEAN, ad \in BOOLEAN :
       /\ g => len + 2 <= rank
       /\ LET a == [PoolArgs0 EXCEPT
                      !.kernel = "MaxPoolWithIndexRawKernel",
                      !.x_dims = XDims(rank),
                      !.kernel_size = KernelSizeOf(len),
                      !.paddings = PaddingsOf(len),
                      !.strides = StridesOf(rank),
                      !.dilations = DilationsOf(rank),
                      !.global_pooling = g, !.adaptive = ad]
          IN Returned(a, MaxPoolWithIndexRawKernel(
                           a.x_dims, a.kernel_size, a.strides, a.paddings,
                           a.dilations, a.global_pooling, a.adaptive))

CallFractionalMaxPoolRawKernel ==
  /\ pool_in = NoCall
  /\ \E rank \in Ranks, olen \in KernelLens, klen \in KernelLens,
        m \in BOOLEAN :
       LET a == [PoolArgs0 EXCEPT
                   !.kernel = "FractionalMaxPoolRawKernel",
                   !.x_dims = XDims(rank),
                   !.output_size = [i \in 1..olen |-> i],
                   !.kernel_size = KernelSizeOf(klen),
                   !.return_mask = m]
       IN Returned(a, FractionalMaxPoolRawKernel(
                        a.x_dims, a.output_size, a.kernel_size,
                        a.return_mask))

\* GetReduceNum called on its own, with a reduce_dim that may already hold
\* an entry
CallGetReduceNum ==
  /\ pool_in = NoCall
  /\ \E x_dims \in {XDims(4)} \cup LargeXDims, channel_last \in BOOLEAN,
        os \in OutSpatials \cup {<<2, 2>>}, reduce_dim \in {<<>>, <<0>>} :
       /\ pool_in' = [PoolArgs0 EXCEPT
                        !.kernel = "GetReduceNum", !.x_dims = x_dims,
                        !.out_dims = OutDimsOf(x_dims, channel_last, os),
                        !.data_format = IF channel_last THEN "NHWC"
                                        ELSE "NCHW",
                        !.reduce_dim = reduce_dim]
       /\ pool_ret' = GetReduceNum(x_dims,
                                   OutDimsOf(x_dims, channel_last, os),
                                   channel_last, reduce_dim)
       /\ UNCHANGED <<pool_calls, pool_err>>
       /\ UNCHANGED notPool

NextPool ==
  \/ CallPoolRawKernel \/ CallPool2dKernel \/ CallPool3dKernel
  \/ CallLPPool2dKernel \/ CallMaxPoolRawKernel
  \/ CallMaxPoolWithIndexRawKernel \/ CallFractionalMaxPoolRawKernel
  \/ CallGetReduceNum

SpecPool == InitPool /\ [][NextPool]_vars

(***************************************************************************)
(* pooling kernels: properties                                             *)
(***************************************************************************)
PoolCalled == pool_in.kernel # "none"

\* the kernels that run PoolRawKernel
RawKernels == {"PoolRawKernel", "Pool2dKernel", "Pool3dKernel",
               "LPPool2dKernel"}

RanPoolRaw == pool_in.kernel \in RawKernels

Succeeded == pool_err = NoError

NoFunctor == pool_calls = <<>>

\* the pooling type in effect
EffectiveType ==
  IF pool_in.norm_type = INFINITY THEN "max" ELSE pool_in.pooling_type

\* the spatial dims the kernel called takes from x
SpatialDims ==
  LET d == pool_in.x_dims IN
    IF RanPoolRaw /\ pool_in.data_format \in {"NHWC", "NDHWC"}
    THEN SubSeq(d, 2, Len(d) - 1)
    ELSE SubSeq(d, 3, Len(d))

\* the kernel size the switch of the kernel called looks at
KernelSizeInEffect ==
  IF pool_in.global_pooling
  THEN (IF pool_in.kernel = "MaxPoolWithIndexRawKernel"
        THEN [i \in 1..Len(pool_in.kernel_size) |-> pool_in.x_dims[i + 2]]
        ELSE SpatialDims)
  ELSE pool_in.kernel_size

\* on a GPU build the 2D avg branch reduces instead of pooling when the
\* pooling is adaptive and the output is 1x1 (GetReduceNum > 0)
ReducesOnGpu ==
  LET h == IF pool_in.data_format \in {"NHWC", "NDHWC"} THEN 2 ELSE 3 IN
    /\ pool_in.gpu /\ pool_in.adaptive
    /\ Len(KernelSizeInEffect) = 2 /\ EffectiveType = "avg"
    /\ pool_in.out_dims[h] = 1 /\ pool_in.out_dims[h + 1] = 1
    /\ MulInt32(pool_in.x_dims[h], pool_in.x_dims[h + 1]) > 0

\* the one functor of a call is the dim-D functor with the pooling process
\* of the effective type
PoolingFunctorSelected ==
  /\ Len(pool_calls) = 1
  /\ pool_calls[1].functor =
       (IF Len(KernelSizeInEffect) = 2 THEN "Pool2dFunctor"
        ELSE "Pool3dFunctor")
  /\ Len(KernelSizeInEffect) \in {2, 3}
  /\ pool_calls[1].process =
       (IF EffectiveType = "max" THEN "MaxPool"
        ELSE IF EffectiveType = "avg" THEN "AvgPool" ELSE "LPPool")
  /\ pool_calls[1].process = "LPPool" =>
       /\ pool_calls[1].norm_type = pool_in.norm_type
       /\ Len(KernelSizeInEffect) = 2

\* C5 as stated: PoolRawKernel selects exactly one pooling functor per
\* successful call from the length of the normalized kernel size and the
\* effective pooling type: 2 -> 2D functor, 3 -> 3D functor; "max" ->
\* MaxPool, "avg" -> AvgPool, any other type -> LPPool with the given
\* norm_type (2D only).
C5_OneFunctor_AsStated ==
  (RanPoolRaw /\ Succeeded) => PoolingFunctorSelected

\* C5 amended: as stated, except that on a GPU build a 2D adaptive avg call
\* with a 1x1 output and a positive GetReduceNum runs the sum-then-divide
\* ReduceKernel over the two spatial axes and no pooling functor.
C5_OneFunctor ==
  (RanPoolRaw /\ Succeeded) =>
    IF ReducesOnGpu
    THEN /\ Len(pool_calls) = 1
         /\ pool_calls[1].functor = "ReduceKernel"
    ELSE PoolingFunctorSelected

\* a successful PoolRawKernel call of type "lp" with norm_type +infinity on
\* a 3-element kernel size: the 3D functor runs with MaxPool
C5_Witness ==
  /\ pool_in.kernel = "PoolRawKernel" /\ Succeeded
  /\ pool_in.pooling_type = "lp" /\ pool_in.norm_type = INFINITY
  /\ Len(pool_in.kernel_size) = 3 /\ ~pool_in.global_pooling
  /\ Len(pool_calls) = 1
  /\ pool_calls[1].functor = "Pool3dFunctor"
  /\ pool_calls[1].process = "MaxPool"

KernelSizeKernels == RawKernels \cup {"MaxPoolRawKernel",
                                      "MaxPoolWithIndexRawKernel"}

RaisedInvalidArgument == pool_err.type = "InvalidArgument"

\* C6 as stated: PoolRawKernel, MaxPoolRawKernel and
\* MaxPoolWithIndexRawKernel raise InvalidArgument when the kernel size has
\* a length other than 2 or 3, FractionalMaxPoolRawKernel when output_size
\* has; no pooling functor is invoked then.
C6_BadLength_AsStated ==
  /\ (pool_in.kernel \in KernelSizeKernels
        /\ Len(pool_in.kernel_size) \notin {2, 3})
       => (RaisedInvalidArgument /\ NoFunctor)
  /\ (pool_in.kernel = "FractionalMaxPoolRawKernel"
        /\ Len(pool_in.output_size) \notin {2, 3})
       => (RaisedInvalidArgument /\ NoFunctor)

\* C6 amended: the length that counts is that of the kernel size in effect
\* at the switch: the caller's, or with global_pooling the spatial dims of
\* the input in PoolRawKernel and MaxPoolRawKernel.
C6_BadLength ==
  /\ (pool_in.kernel \in KernelSizeKernels
        /\ Len(KernelSizeInEffect) \notin {2, 3})
       => (RaisedInvalidArgument /\ NoFunctor)
  /\ (pool_in.kernel = "FractionalMaxPoolRawKernel"
        /\ Len(pool_in.output_size) \notin {2, 3})
       => (RaisedInvalidArgument /\ NoFunctor)

\* MaxPoolWithIndexRawKernel called with 4 kernel sizes raised the error
\* and ran no functor
C6_Witness ==
  /\ pool_in.kernel = "MaxPoolWithIndexRawKernel"
  /\ Len(pool_in.kernel_size) = 4
  /\ pool_err = InvalidArgument("Pool op only supports 2D and 3D input.")
  /\ NoFunctor

RanLPFunctor ==
  \E i \in 1..Len(pool_calls) : pool_calls[i].process = "LPPool"

\* C7: PoolRawKernel raises InvalidArgument("norm_type of LPPool op cannot
\* be 0.") whenever the effective type is "lp" and norm_type is 0; so
\* Pool2dKernel and Pool3dKernel fail for pooling_type "lp", and only
\* LPPool2dKernel with a non-zero norm_type reaches the LP functor.
C7_LPNormType ==
  /\ (RanPoolRaw /\ EffectiveType = "lp" /\ pool_in.norm_type = Rat(0))
       => /\ pool_err = InvalidArgument("norm_type of LPPool op cannot be 0.")
          /\ NoFunctor
  /\ (pool_in.kernel \in {"Pool2dKernel", "Pool3dKernel"}
        /\ pool_in.pooling_type = "lp")
       => (RaisedInvalidArgument /\ NoFunctor)
  /\ (pool_in.kernel \in {"Pool2dKernel", "Pool3dKernel", "LPPool2dKernel"}
        /\ RanLPFunctor)
       => /\ pool_in.kernel = "LPPool2dKernel"
          /\ \A i \in 1..Len(pool_calls) : pool_calls[i].norm_type # Rat(0)

NotMaxNorAvg == EffectiveType \notin {"max", "avg"}

No3dFunctor ==
  \A i \in 1..Len(pool_calls) : pool_calls[i].functor # "Pool3dFunctor"

\* C8 as stated: PoolRawKernel with a 3-element kernel size and an
\* effective type that is neither "max" nor "avg" raises
\* InvalidArgument("LPPool op only supports 2D input.") and invokes no 3D
\* pooling functor.
C8_LP3d_AsStated ==
  (RanPoolRaw /\ Len(pool_in.kernel_size) = 3 /\ NotMaxNorAvg) =>
    /\ pool_err = InvalidArgument("LPPool op only supports 2D input.")
    /\ No3dFunctor

\* C8 amended: with a kernel size in effect (after the global_pooling
\* replacement) of 3 elements and an effective type that is neither "max"
\* nor "avg", PoolRawKernel raises InvalidArgument and invokes no functor;
\* the message is "norm_type of LPPool op cannot be 0." when the type is
\* "lp" and norm_type is 0, and "LPPool op only supports 2D input."
\* otherwise.
C8_LP3d ==
  (RanPoolRaw /\ Len(KernelSizeInEffect) = 3 /\ NotMaxNorAvg) =>
    /\ pool_err =
         (IF EffectiveType = "lp" /\ pool_in.norm_type = Rat(0)
          THEN InvalidArgument("norm_type of LPPool op cannot be 0.")
          ELSE InvalidArgument("LPPool op only supports 2D input."))
    /\ NoFunctor

\* PoolRawKernel, type "lp", norm_type 2, 3 kernel sizes: the 2D-only error
C8_Witness ==
  /\ pool_in.kernel = "PoolRawKernel" /\ pool_in.pooling_type = "lp"
  /\ pool_in.norm_type = Rat(2) /\ Len(pool_in.kernel_size) = 3
  /\ ~pool_in.global_pooling
  /\ pool_err = InvalidArgument("LPPool op only supports 2D input.")
  /\ NoFunctor

\* the padding list as UpdatePadding left it
AfterUpdatePadding == UpdatePadding(pool_in.paddings, pool_in.upd)

PaddingKernels == RawKernels \cup {"MaxPoolRawKernel"}

\* the calls that take a padding list
PaddedCalls ==
  {i \in 1..Len(pool_calls) : pool_calls[i].functor # "ReduceKernel"}

\* C9: in PoolRawKernel and MaxPoolRawKernel a padding list that has
\* exactly 2N entries after UpdatePadding (N spatial dims) is reduced to
\* the N entries at its positions 0, 2, ..., 2N-2, in that order; a list of
\* any other length is passed to the functor unchanged.
C9_PaddingNormalization ==
  (pool_in.kernel \in PaddingKernels) =>
    \A i \in PaddedCalls :
      LET n == Len(SpatialDims)
          p == AfterUpdatePadding
      IN IF Len(p) = 2 * n
         THEN pool_calls[i].paddings = [k \in 1..n |-> p[2 * k - 1]]
         ELSE pool_calls[i].paddings = p

\* PoolRawKernel on a 3D input with the 6 paddings <<1,...,6>>: the functor
\* got <<1, 3, 5>>
C9_Witness ==
  /\ pool_in.kernel = "PoolRawKernel" /\ Len(pool_in.x_dims) = 5
  /\ AfterUpdatePadding = <<1, 2, 3, 4, 5, 6>>
  /\ Len(pool_calls) = 1
  /\ pool_calls[1].functor = "Pool3dFunctor"
  /\ pool_calls[1].paddings = <<1, 3, 5>>

\* the calls that take a kernel size
KernelSizeCalls == PaddedCalls

\* C10: with global_pooling the kernel size handed to the pooling functor
\* is the input's spatial extents: dims 1..rank-2 (channel-last, in
\* PoolRawKernel) or 2..rank-1 in PoolRawKernel and MaxPoolRawKernel;
\* kernel_size[i] = x.dims[i+2] and paddings[i] = 0 for every i below the
\* kernel-size length in MaxPoolWithIndexRawKernel.  Without global_pooling
\* the caller's kernel size is passed through unchanged.
C10_GlobalPooling ==
  (pool_in.kernel \in KernelSizeKernels) =>
    \A i \in KernelSizeCalls :
      LET c == pool_calls[i]
          d == pool_in.x_dims
      IN IF ~pool_in.global_pooling
         THEN c.kernel_size = pool_in.kernel_size
         ELSE IF pool_in.kernel = "MaxPoolWithIndexRawKernel"
         THEN /\ Len(c.kernel_size) = Len(pool_in.kernel_size)
              /\ \A k \in 1..Len(pool_in.kernel_size) :
                   c.kernel_size[k] = d[k + 2] /\ c.paddings[k] = 0
         ELSE IF RanPoolRaw /\ pool_in.data_format \in {"NHWC", "NDHWC"}
         THEN c.kernel_size = SubSeq(d, 2, Len(d) - 1)
         ELSE c.kernel_size = SubSeq(d, 3, Len(d))

\* PoolRawKernel with global_pooling on an NHWC input of dims <<2,3,4,5>>
\* and one caller kernel size: the functor got the kernel size <<3, 4>>
C10_Witness ==
  /\ pool_in.kernel = "PoolRawKernel" /\ pool_in.global_pooling
  /\ pool_in.data_format = "NHWC" /\ Len(pool_in.kernel_size) = 1
  /\ \E i \in KernelSizeCalls : pool_calls[i].kernel_size = <<3, 4>>

\* the pooling process that stands for a pooling type
ProcessOf(type) ==
  IF type = "max" THEN "MaxPool"
  ELSE IF type = "avg" THEN "AvgPool" ELSE "LPPool"

NormTypeError == InvalidArgument("norm_type of LPPool op cannot be 0.")

\* C16: in PoolRawKernel norm_type = +infinity makes the effective pooling
\* type "max" whatever pooling_type is; for every other norm_type the
\* effective type is pooling_type.  The effective type shows in the pooling
\* process that runs, in the reduce path (avg only) and in the norm_type
\* error (lp only).
C16_EffectiveType ==
  RanPoolRaw =>
    LET effective == IF pool_in.norm_type = INFINITY THEN "max"
                     ELSE pool_in.pooling_type
    IN /\ \A i \in PaddedCalls :
            pool_calls[i].process = ProcessOf(effective)
       /\ \A i \in 1..Len(pool_calls) :
            pool_calls[i].functor = "ReduceKernel" => effective = "avg"
       /\ pool_err = NormTypeError <=>
            (effective = "lp" /\ pool_in.norm_type = Rat(0))

\* PoolRawKernel called with pooling_type "avg" and norm_type +infinity ran
\* MaxPool
C16_Witness ==
  /\ pool_in.kernel = "PoolRawKernel" /\ pool_in.pooling_type = "avg"
  /\ pool_in.norm_type = INFINITY
  /\ Len(pool_calls) = 1 /\ pool_calls[1].process = "MaxPool"

\* C17: whenever PoolRawKernel or MaxPoolRawKernel runs max pooling (2D or
\* 3D) the functor is called with exclusive = true and adaptive = false,
\* whatever the caller passed; the avg and lp branches forward the caller's
\* exclusive and adaptive.
C17_MaxPoolFlags ==
  (pool_in.kernel \in PaddingKernels) =>
    \A i \in PaddedCalls :
      LET c == pool_calls[i] IN
        IF c.functor = "MaxPool2dFunctor" \/ c.process = "MaxPool"
        THEN c.exclusive = TRUE /\ c.adaptive = FALSE
        ELSE /\ c.exclusive = pool_in.exclusive
             /\ c.adaptive = pool_in.adaptive

\* PoolRawKernel called for 3D max pooling with exclusive = false and
\* adaptive = true: the functor got true and false
C17_Witness ==
  /\ pool_in.kernel = "PoolRawKernel" /\ pool_in.pooling_type = "max"
  /\ ~pool_in.exclusive /\ pool_in.adaptive
  /\ Len(pool_calls) = 1 /\ pool_calls[1].functor = "Pool3dFunctor"
  /\ pool_calls[1].exclusive /\ ~pool_calls[1].adaptive

\* C18: every error exit of PoolRawKernel comes before any pooling or
\* reduce functor runs; the norm_type check comes before the padding
\* normalization and the kernel-size length check, so a call of type "lp"
\* with norm_type 0 and an unsupported kernel-size length raises the
\* norm_type error and not the dimension error.
C18_ErrorsBeforeFunctors ==
  RanPoolRaw =>
    /\ ~Succeeded => NoFunctor
    /\ (EffectiveType = "lp" /\ pool_in.norm_type = Rat(0)
          /\ Len(KernelSizeInEffect) \notin {2, 3})
         => pool_err = NormTypeError

\* PoolRawKernel, "lp", norm_type 0, 4 kernel sizes and 4 paddings on a 2D
\* input: the norm_type error, no functor
C18_Witness ==
  /\ pool_in.kernel = "PoolRawKernel" /\ pool_in.pooling_type = "lp"
  /\ pool_in.norm_type = Rat(0) /\ ~pool_in.global_pooling
  /\ Len(pool_in.kernel_size) = 4 /\ Len(pool_in.paddings) = 4
  /\ Len(pool_in.x_dims) = 4
  /\ pool_err = NormTypeError /\ NoFunctor

GetReduceNumCalled == pool_in.kernel = "GetReduceNum"

\* position (1-based) of the height in the dims of a 2D tensor
HeightAt == IF pool_in.data_format \in {"NHWC", "NDHWC"} THEN 2 ELSE 3

OutputIs1x1 ==
  pool_in.out_dims[HeightAt] = 1 /\ pool_in.out_dims[HeightAt + 1] = 1

\* n = h * w, for h > 0, told without forming the product
IsProduct(n, h, w) == n >= 0 /\ n % h = 0 /\ n \div h = w

\* C19: GetReduceNum returns the product of the input's two spatial
\* extents and appends the two spatial axes (<<1, 2>> channel-last, <<2, 3>>
\* otherwise) to reduce_dim exactly when the output's height and width are
\* both 1; otherwise it returns 0 and leaves reduce_dim unchanged.
C19_GetReduceNum ==
  GetReduceNumCalled =>
    IF OutputIs1x1
    THEN /\ IsProduct(pool_ret.reduce_num, pool_in.x_dims[HeightAt],
                      pool_in.x_dims[HeightAt + 1])
         /\ pool_ret.reduce_dim =
              pool_in.reduce_dim \o <<HeightAt - 1, HeightAt>>
    ELSE /\ pool_ret.reduce_num = 0
         /\ pool_ret.reduce_dim = pool_in.reduce_dim

\* the spatial extents have a product below 2^31
SmallExtents ==
  /\ pool_in.x_dims[HeightAt] < 46341
  /\ pool_in.x_dims[HeightAt + 1] < 46341

\* what GetReduceNum does for every input: the axes are appended exactly
\* for a 1x1 output, and the value returned is the product when that is
\* below 2^31
GetReduceNum_SmallExtents ==
  GetReduceNumCalled =>
    /\ pool_ret.reduce_dim =
         (IF OutputIs1x1
          THEN pool_in.reduce_dim \o <<HeightAt - 1, HeightAt>>
          ELSE pool_in.reduce_dim)
    /\ ~OutputIs1x1 => pool_ret.reduce_num = 0
    /\ (OutputIs1x1 /\ SmallExtents) =>
         pool_ret.reduce_num =
           pool_in.x_dims[HeightAt] * pool_in.x_dims[HeightAt + 1]

\* the call ran the 2D avg branch
Avg2dBranch ==
  /\ RanPoolRaw /\ Succeeded
  /\ Len(KernelSizeInEffect) = 2 /\ EffectiveType = "avg"

\* C20: in the 2D avg branch the sum-then-divide reduction over the spatial
\* axes, with divisor input height x input width, is used only when
\* adaptive is true and GetReduceNum is positive (output 1x1) on a GPU
\* build; for non-adaptive pooling, another output size, a zero reduce_num
\* and on CPU builds Pool2dFunctor with AvgPool runs with the caller's
\* exclusive and adaptive.
C20_AvgReducePath ==
  Avg2dBranch =>
    /\ Len(pool_calls) = 1
    /\ IF pool_calls[1].functor = "ReduceKernel"
       THEN /\ pool_in.adaptive /\ pool_in.gpu /\ OutputIs1x1
            /\ pool_calls[1].reduce_num > 0
            /\ IsProduct(pool_calls[1].reduce_num, pool_in.x_dims[HeightAt],
                         pool_in.x_dims[HeightAt + 1])
            /\ pool_calls[1].reduce_dim = <<HeightAt - 1, HeightAt>>
       ELSE /\ pool_calls[1].functor = "Pool2dFunctor"
            /\ pool_calls[1].process = "AvgPool"
            /\ pool_calls[1].exclusive = pool_in.exclusive
            /\ pool_calls[1].adaptive = pool_in.adaptive
    /\ (~pool_in.adaptive \/ ~OutputIs1x1 \/ ~pool_in.gpu) =>
         pool_calls[1].functor = "Pool2dFunctor"

\* the path taken in the 2D avg branch, with the divisor as GetReduceNum
\* returns it
AvgReducePath_Int32 ==
  Avg2dBranch =>
    LET n == MulInt32(pool_in.x_dims[HeightAt], pool_in.x_dims[HeightAt + 1])
    IN /\ Len(pool_calls) = 1
       /\ IF pool_in.adaptive /\ pool_in.gpu /\ OutputIs1x1 /\ n > 0
          THEN /\ pool_calls[1].functor = "ReduceKernel"
               /\ pool_calls[1].reduce_num = n
               /\ pool_calls[1].reduce_dim = <<HeightAt - 1, HeightAt>>
          ELSE /\ pool_calls[1].functor = "Pool2dFunctor"
               /\ pool_calls[1].process = "AvgPool"
               /\ pool_calls[1].exclusive = pool_in.exclusive
               /\ pool_calls[1].adaptive = pool_in.adaptive

\* C21: MaxPoolRawKernel takes the spatial dims as dims 2..rank-1 of x
\* whatever data_format is, and neither pooling_type nor norm_type has any
\* effect: what it does is told by the other arguments alone.  With 2
\* kernel sizes in effect it calls MaxPool2dFunctor with the caller's
\* dilations, with 3 it calls Pool3dFunctor with MaxPool and no dilations.
C21_MaxPoolRawKernel ==
  (pool_in.kernel = "MaxPoolRawKernel") =>
    LET d == pool_in.x_dims
        size == IF pool_in.global_pooling THEN SubSeq(d, 3, Len(d))
                ELSE pool_in.kernel_size
    IN IF Len(size) = 2
       THEN /\ Succeeded /\ Len(pool_calls) = 1
            /\ pool_calls[1].functor = "MaxPool2dFunctor"
            /\ pool_calls[1].kernel_size = size
            /\ pool_calls[1].dilations = pool_in.dilations
       ELSE IF Len(size) = 3
       THEN /\ Succeeded /\ Len(pool_calls) = 1
            /\ pool_calls[1].functor = "Pool3dFunctor"
            /\ pool_calls[1].process = "MaxPool"
            /\ pool_calls[1].kernel_size = size
            /\ pool_calls[1].dilations = <<>>
       ELSE /\ NoFunctor
            /\ pool_err =
                 InvalidArgument("MaxPool op only supports 2D and 3D input.")

\* MaxPoolRawKernel with global_pooling on an NHWC input of dims
\* <<2, 3, 4, 5>>, pooling_type "lp" and norm_type 0: MaxPool2dFunctor got
\* the kernel size <<4, 5>> and the caller's dilations
C21_Witness ==
  /\ pool_in.kernel = "MaxPoolRawKernel" /\ pool_in.global_pooling
  /\ pool_in.data_format = "NHWC" /\ pool_in.x_dims = <<2, 3, 4, 5>>
  /\ pool_in.pooling_type = "lp" /\ pool_in.norm_type = Rat(0)
  /\ Len(pool_calls) = 1 /\ pool_calls[1].functor = "MaxPool2dFunctor"
  /\ pool_calls[1].kernel_size = <<4, 5>>
  /\ pool_calls[1].dilations = <<2, 3>>

(***************************************************************************)
(* Argmax (cinn::hlir::op): lowering of argmax to an arg-sort and a        *)
(* compute tensor.  A tensor is a function from index tuples (0-based      *)
(* coordinates) to values.                                                 *)
(***************************************************************************)
RECURSIVE Indices(_)
Indices(shape) ==
  IF shape = <<>> THEN {<<>>}
  ELSE {<<i>> \o t : i \in 0..(shape[1] - 1), t \in Indices(Tail(shape))}

\* std::vector::insert(begin() + pos, e)
Insert(v, pos, e) == SubSeq(v, 1, pos) \o <<e>> \o SubSeq(v, pos + 1, Len(v))

\* reading a tensor at an index tuple; an index that is not one of the
\* tensor's is no element
NoElement == -1

At(t, i) == IF i \in DOMAIN t THEN t[i] ELSE NoElement

\* the index tuples that differ from i at most at dimension `axis`
AxisSlice(shape, axis, i) ==
  {j \in Indices(shape) :
     \A k \in 1..Len(shape) : k # axis + 1 => j[k] = i[k]}

\* ArgSort(A, target, axis, is_ascend, name) is not part of the sources.
\* Its first tensor has the shape of A and holds, at position k along
\* `axis`, the position along `axis` of the element of rank k of the slice
\* (rank 0 the largest when not is_ascend); equal elements may come in any
\* order.  The result is the set of tensors it may return.
ArgSort(A, shape, axis, is_ascend) ==
  {s \in [Indices(shape) -> 0..(shape[axis + 1] - 1)] :
     \A i \in Indices(shape) :
       /\ \A j \in AxisSlice(shape, axis, i) : j # i => s[j] # s[i]
       /\ i[axis + 1] > 0 =>
            LET prev == [i EXCEPT ![axis + 1] = @ - 1]
                a == A[[i EXCEPT ![axis + 1] = s[prev]]]
                b == A[[i EXCEPT ![axis + 1] = s[i]]]
            IN IF is_ascend THEN a <= b ELSE a >= b}

CheckFailed(msg) == [type |-> "CheckFailed", msg |-> msg]

\* what Argmax returns: the exception raised (NoError if none), the shape
\* and the elements of the tensor returned first, the arg-sort tensor
\* returned second, and the tensors built, in order
ArgmaxResult(err, output_shape, res, sort_index, built) ==
  [err |-> err, output_shape |-> output_shape, res |-> res,
   sort_index |-> sort_index, built |-> built]

ArgmaxRaise(err) == ArgmaxResult(err, <<>>, <<>>, <<>>, <<>>)

\* the loop that builds output_shape, from dimension i on, and the
\* replacement of an empty shape
RECURSIVE OutputShapeLoop(_, _, _, _)
OutputShapeLoop(shape, pos_axis, keep_dims, i) ==
  IF i >= Len(shape) THEN <<>>
  ELSE (IF pos_axis = i
        THEN (IF keep_dims THEN <<1>> ELSE <<>>)
        ELSE <<shape[i + 1]>>)
       \o OutputShapeLoop(shape, pos_axis, keep_dims, i + 1)

OutputShape_noempty(shape, pos_axis, keep_dims) ==
  OutputShapeLoop(shape, pos_axis, keep_dims, 0)

OutputShape(shape, pos_axis, keep_dims) ==
  LET output_shape == OutputShapeLoop(shape, pos_axis, keep_dims, 0)
  IN IF output_shape = <<>> THEN <<1>> ELSE output_shape

\* the index the compute lambda reads sort_index.at(0) at
EvalIndices_front(indices, keep_dims, ndim, pos_axis) ==
  IF ~keep_dims /\ ndim > 1
  THEN Insert(indices, 0, 0)
  ELSE [indices EXCEPT ![pos_axis + 1] = 0]

EvalIndices(indices, keep_dims, ndim, pos_axis) ==
  IF ~keep_dims /\ ndim > 1
  THEN Insert(indices, pos_axis, 0)
  ELSE [indices EXCEPT ![pos_axis + 1] = 0]

\* int pos_axis = axis; if (axis < 0) pos_axis = ndim + axis
PosAxis_raw(ndim, axis) == axis

PosAxis(ndim, axis) == IF axis < 0 THEN ndim + axis ELSE axis

\* the validation of ndim and axis; pos_axis is an int and ndim a size_t,
\* and the comparison macros are not part of the sources: a negative
\* pos_axis fails the LT check when it is compared as unsigned, and the GE
\* check otherwise
ArgmaxValidation(ndim, axis) ==
  LET pos_axis == PosAxis(ndim, axis) IN
    IF ~(ndim > 0) THEN
      {InvalidArgument(
         "The dimension of input tensor must be greater than 0.")}
    ELSE IF pos_axis < 0 THEN
      {InvalidArgument(
         "The axis must be less than the dimension of input tensor."),
       InvalidArgument("The axis must be greater than or equal to 0.")}
    ELSE IF ~(pos_axis < ndim) THEN
      {InvalidArgument(
         "The axis must be less than the dimension of input tensor.")}
    ELSE {NoError}

\* Argmax(in_tensor, target, axis, keep_dims, name): the set of results
\* the call may have.  nonconst is the set of dimensions whose extent is
\* not a constant.
Argmax(in_tensor, shape, nonconst, axis, keep_dims) ==
  LET ndim == Len(shape)
      pos_axis == PosAxis(ndim, axis)
      checks == ArgmaxValidation(ndim, axis)
  IN IF checks # {NoError} THEN {ArgmaxRaise(e) : e \in checks}
     ELSE IF nonconst # {} THEN
       {ArgmaxRaise(CheckFailed(
          "Input tensor's shape should be constant value."))}
     ELSE
       LET output_shape == OutputShape(shape, pos_axis, keep_dims) IN
         {ArgmaxResult(
            NoError, output_shape,
            [indices \in Indices(output_shape) |->
               At(sort_index,
                  EvalIndices(indices, keep_dims, ndim, pos_axis))],
            sort_index,
            <<[op |-> "ArgSort", axis |-> pos_axis, is_ascend |-> FALSE],
              [op |-> "Compute", shape |-> output_shape]>>) :
            sort_index \in ArgSort(in_tensor, shape, pos_axis, FALSE)}

\* ---- the calls ----
ArgMaxVal == 2
ArgAxisBound == 4

ArgShapes == {<<>>, <<2>>, <<3>>, <<1, 2>>, <<2, 2>>, <<2, 1, 2>>}
ArgVals(shape) == IF Len(shape) <= 1 THEN 0..ArgMaxVal ELSE 0..1
ArgAxes == (0 - ArgAxisBound)..(ArgAxisBound - 1)
ArgNonConst(shape) == IF shape = <<>> THEN {{}} ELSE {{}, {0}}

InitArgmax == ArgmaxIdle /\ RpcIdle /\ PNormIdle /\ PoolIdle /\ IsgIdle

CallArgmax ==
  /\ ArgmaxIdle
  /\ \E shape \in ArgShapes, axis \in ArgAxes, keep_dims \in BOOLEAN :
     \E nonconst \in ArgNonConst(shape) :
     \E in_tensor \in [Indices(shape) -> ArgVals(shape)] :
     \E r \in Argmax(in_tensor, shape, nonconst, axis, keep_dims) :
       /\ argmax_in' = [kernel |-> "Argmax", in_tensor |-> in_tensor,
                        shape |-> shape, nonconst |-> nonconst,
                        axis |-> axis, keep_dims |-> keep_dims]
       /\ argmax_out' = r
       /\ UNCHANGED <<sch_in, sch_out>>
       /\ UNCHANGED notArgmax

\* ---- argmax_schedule ----
\* A schedule block is the memory type of its buffer and is_reduce_axis of
\* each of its iter_vars.  IRSchedule and the lowering that produces the
\* blocks are not part of the sources: GetAllBlocks() is an argument of the
\* model, SetBuffer sets the memory type, MergeExprs leaves one expression,
\* and IRScheduleInjectiveCPU is recorded as applied.
SetBuffer(block, memory_type) == [block EXCEPT !.buffer = memory_type]

MergeExprs(vec_ast) == <<vec_ast>>

\* iter_vars[real_axis]->is_reduce_axis = true
MarkReduceAxis(block, real_axis) ==
  [block EXCEPT !.is_reduce_axis[real_axis + 1] = TRUE]

\* real_axis taken as 0 for a negative axis
RealAxis_noadd(axis, iter_var_size) == IF axis < 0 THEN 0 ELSE axis

\* int real_axis = axis; if (real_axis < 0) real_axis += iter_var_size
RealAxis(axis, iter_var_size) ==
  IF axis < 0 THEN axis + iter_var_size ELSE axis

\* std::accumulate(begin, end, 1, std::multiplies<int>()) from acc on: the
\* product in an int, or "overflow" when a step leaves the range of int
\* (undefined behaviour); the dims are not negative
RECURSIVE Accumulate(_, _)
Accumulate(shape, acc) ==
  IF shape = <<>> THEN [value |-> acc, overflow |-> FALSE]
  ELSE IF Head(shape) # 0 /\ acc > ((2^30 - 1) + 2^30) \div Head(shape)
  THEN [value |-> 0, overflow |-> TRUE]
  ELSE Accumulate(Tail(shape), acc * Head(shape))

\* the outcomes of prod_size > 1: either one after an overflow
ProdSizeAbove1(shape) ==
  LET p == Accumulate(shape, 1) IN
    IF p.overflow THEN BOOLEAN ELSE {p.value > 1}

\* for (i...) if (arg_pack[i].is_expr()) vec_ast.emplace_back(arg_pack[i])
VecAst(arg_pack) == SelectSeq(arg_pack, LAMBDA a : a.is_expr)

ScheduleResult(err, blocks, injective, res) ==
  [err |-> err, blocks |-> blocks, injective |-> injective, res |-> res]

\* the lambda argmax_schedule of StrategyForArgmax; the result is the set
\* of outcomes
argmax_schedule(arg_pack, all_blocks, axis, output_shapes, arch) ==
  LET vec_ast == VecAst(arg_pack) IN
    IF vec_ast = <<>>
    THEN {ScheduleResult(CheckFailed("!vec_ast.empty()"), all_blocks, FALSE,
                         <<>>)}
    ELSE
      LET exprs == MergeExprs(vec_ast)
          iter_var_size == Len(all_blocks[1].is_reduce_axis)
          real_axis == RealAxis(axis, iter_var_size)
          blocks ==
            [all_blocks EXCEPT
               ![1] = MarkReduceAxis(SetBuffer(@, "local"), real_axis),
               ![2] = MarkReduceAxis(SetBuffer(@, "local"), real_axis)]
      IN {ScheduleResult(NoError, blocks,
                         above1 /\ arch = "X86Arch", <<exprs[1]>>) :
            above1 \in ProdSizeAbove1(output_shapes[1])}

\* the blocks of the lowered argmax: two blocks with n and m iter_vars, and
\* possibly a third
MaxIterVars == 3
ScheduleBlock(n) == [buffer |-> "", is_reduce_axis |-> [i \in 1..n |-> FALSE]]
AllBlocks ==
  UNION {{<<ScheduleBlock(n), ScheduleBlock(n + d)>>,
          <<ScheduleBlock(n), ScheduleBlock(n + d), ScheduleBlock(1)>>} :
           n \in 1..MaxIterVars, d \in {0, 1}}
Archs == {"X86Arch", "NVGPUArch", "ARMArch"}
LargeShape == <<65536, 65536>>
ScheduleShapes ==
  {<<>>, <<1>>, <<1, 1>>, <<2>>, <<0, 3>>, <<2, 3>>, LargeShape}
OutputShapes == {<<s>> : s \in ScheduleShapes} \cup {<<<<1>>, <<2, 3>>>>}
Expression(name) == [is_expr |-> TRUE, value |-> name]
StringValue(name) == [is_expr |-> FALSE, value |-> name]
ArgPacks ==
  {<<Expression("e0")>>, <<Expression("e0"), Expression("e1")>>,
   <<StringValue("Argmax_out"), Expression("e0")>>,
   <<StringValue("Argmax_out")>>}

\* the axis attribute is one the compute has accepted for the iter_vars of
\* the first block
CallArgmaxSchedule ==
  /\ ArgmaxIdle
  /\ \E all_blocks \in AllBlocks, arch \in Archs, arg_pack \in ArgPacks :
     \E output_shapes \in OutputShapes :
     \E axis \in (0 - Len(all_blocks[1].is_reduce_axis))
                    ..(Len(all_blocks[1].is_reduce_axis) - 1) :
     \E r \in argmax_schedule(arg_pack, all_blocks, axis, output_shapes,
                               arch) :
       /\ sch_in' = [kernel |-> "argmax_schedule", arg_pack |-> arg_pack,
                     blocks |-> all_blocks, axis |-> axis,
                     output_shapes |-> output_shapes, arch |-> arch]
       /\ sch_out' = r
       /\ UNCHANGED <<argmax_in, argmax_out>>
       /\ UNCHANGED notArgmax

NextArgmax == CallArgmax \/ CallArgmaxSchedule

SpecArgmax == InitArgmax /\ [][NextArgmax]_vars

(***************************************************************************)
(* Argmax: properties                                                      *)
(***************************************************************************)
ArgmaxCalled == argmax_in # NoCall

ArgmaxSucceeded == ArgmaxCalled /\ argmax_out.err = NoError

\* the axis counted from the front
NormalizedAxis ==
  IF argmax_in.axis < 0 THEN Len(argmax_in.shape) + argmax_in.axis
  ELSE argmax_in.axis

\* the index of the input whose coordinate at the normalized axis is p and
\* whose other coordinates are those of the output index o
InputIndex(o, p) ==
  [k \in 1..Len(argmax_in.shape) |->
     IF k = NormalizedAxis + 1 THEN p
     ELSE IF argmax_in.keep_dims \/ k < NormalizedAxis + 1 THEN o[k]
     ELSE o[k - 1]]

\* C11: for an input of rank >= 1 and an accepted axis every element of the
\* tensor returned first is the descending arg-sort read at position 0
\* along the normalized axis, the other coordinates being those of the
\* output element (the index read has length ndim and 0 at the axis), so
\* it is the position along the axis of a maximum of that slice.
C11_ArgmaxIsMax ==
  ArgmaxSucceeded =>
    \A o \in DOMAIN argmax_out.res :
      LET read == InputIndex(o, 0)
          r == argmax_out.res[o]
      IN /\ Len(read) = Len(argmax_in.shape)
         /\ read \in DOMAIN argmax_out.sort_index
         /\ r = argmax_out.sort_index[read]
         /\ \A p \in 0..(argmax_in.shape[NormalizedAxis + 1] - 1) :
              argmax_in.in_tensor[InputIndex(o, r)]
                >= argmax_in.in_tensor[InputIndex(o, p)]

\* a 2x2 input <<0, 1>>, <<1, 0>> reduced along axis -1 without keep_dims:
\* the result is <<1, 0>>
C11_Witness ==
  /\ ArgmaxSucceeded
  /\ argmax_in.shape = <<2, 2>> /\ argmax_in.axis = -1
  /\ ~argmax_in.keep_dims
  /\ argmax_in.in_tensor[<<0, 0>>] = 0 /\ argmax_in.in_tensor[<<0, 1>>] = 1
  /\ argmax_in.in_tensor[<<1, 0>>] = 1 /\ argmax_in.in_tensor[<<1, 1>>] = 0
  /\ argmax_out.res[<<0>>] = 1 /\ argmax_out.res[<<1>>] = 0

\* the input shape without the normalized axis (keep_dims false) or with 1
\* in its place (keep_dims true)
ReducedShape ==
  LET shape == argmax_in.shape
      a == NormalizedAxis
  IN IF argmax_in.keep_dims THEN [shape EXCEPT ![a + 1] = 1]
     ELSE SubSeq(shape, 1, a) \o SubSeq(shape, a + 2, Len(shape))

\* C12: the output shape of Argmax is the input shape with the normalized
\* axis removed (keep_dims false) or replaced by 1 (keep_dims true), the
\* other dimensions kept in order; an empty shape (rank-1 input, keep_dims
\* false) becomes <<1>>, so the output never has rank 0.
C12_ArgmaxOutputShape ==
  ArgmaxSucceeded =>
    /\ argmax_out.output_shape =
         (IF ReducedShape = <<>> THEN <<1>> ELSE ReducedShape)
    /\ ReducedShape = <<>> <=>
         (Len(argmax_in.shape) = 1 /\ ~argmax_in.keep_dims)
    /\ Len(argmax_out.output_shape) >= 1
    /\ DOMAIN argmax_out.res = Indices(argmax_out.output_shape)

\* a rank-1 input of 3 elements without keep_dims: the output shape is <<1>>
C12_Witness ==
  /\ ArgmaxSucceeded
  /\ argmax_in.shape = <<3>> /\ ~argmax_in.keep_dims
  /\ argmax_out.output_shape = <<1>>

AxisAccepted ==
  /\ Len(argmax_in.shape) > 0
  /\ 0 - Len(argmax_in.shape) <= argmax_in.axis
  /\ argmax_in.axis <= Len(argmax_in.shape) - 1

\* C13: Argmax accepts an axis exactly when -ndim <= axis <= ndim-1 and
\* ndim > 0; a negative axis is normalized to ndim + axis; a rank-0 input
\* or a normalized axis outside 0..ndim-1 raises InvalidArgument before
\* any arg-sort or compute tensor is built.
C13_ArgmaxAxis ==
  ArgmaxCalled =>
    /\ (argmax_out.err.type = "InvalidArgument") <=> ~AxisAccepted
    /\ ~AxisAccepted => argmax_out.built = <<>>
    /\ \A i \in 1..Len(argmax_out.built) :
         argmax_out.built[i].op = "ArgSort" =>
           /\ argmax_out.built[i].axis = NormalizedAxis
           /\ NormalizedAxis \in 0..(Len(argmax_in.shape) - 1)

\* axis -3 on a 2x2 input: InvalidArgument, nothing built
C13_Witness ==
  /\ ArgmaxCalled /\ argmax_in.shape = <<2, 2>> /\ argmax_in.axis = -3
  /\ argmax_out.err.type = "InvalidArgument"
  /\ argmax_out.built = <<>>

ScheduleCalled == sch_in # NoCall

ScheduleSucceeded == ScheduleCalled /\ sch_out.err = NoError

\* the product of dims that are not negative is greater than 1
ProductAbove1(shape) ==
  /\ \A i \in 1..Len(shape) : shape[i] # 0
  /\ \E i \in 1..Len(shape) : shape[i] > 1

RECURSIVE Product(_)
Product(dims) == IF dims = <<>> THEN 1 ELSE dims[1] * Product(Tail(dims))

RECURSIVE Dot(_, _)
Dot(i, strides) ==
  IF i = <<>> THEN 0 ELSE i[1] * strides[1] + Dot(Tail(i), Tail(strides))

\* DenseTensorMeta::calc_strides: the strides of a contiguous tensor
calc_strides(dims) ==
  [k \in 1..Len(dims) |-> Product(SubSeq(dims, k + 1, Len(dims)))]

\* position in the holder (1-based) of the element at index tuple i
Addr(t, i) == t.offset + Dot(i, t.strides) + 1

\* position of index tuple i in row-major order (0-based)
RowMajor(i, dims) == Dot(i, calc_strides(dims))

DenseTensor(dims, strides, offset, allocated, data) ==
  [dims |-> dims, strides |-> strides, offset |-> offset,
   allocated |-> allocated, data |-> data]

Fatal(msg) == [type |-> "Fatal", msg |-> msg]

\* dev_ctx.Alloc: the tensor has a holder afterwards; a holder that
\* existed is kept
Alloc(t) == [t EXCEPT !.allocated = TRUE]

\* x_grad->set_strides(...)
set_strides(t, strides) == [t EXCEPT !.strides = strides]

\* phi::StridedTensorFill(t, value, &t): every element of t is value
StridedTensorFill(t, value) ==
  [t EXCEPT !.data =
     [a \in 1..Len(t.data) |->
        IF \E i \in Indices(t.dims) : Addr(t, i) = a THEN value
        ELSE t.data[a]]]

\* IndexSelectStridedKernel(dev_ctx, x, index, dim, &out): out becomes the
\* view of x at position index along dimension dim and shares x's holder
IndexSelectStridedKernel(x, index, dim) ==
  LET d == IF dim >= 0 THEN dim ELSE dim + Len(x.dims) IN
    [x EXCEPT !.dims = Erase(x.dims, d), !.strides = Erase(x.strides, d),
              !.offset = x.offset + index * x.strides[d + 1]]

\* phi::StridedTensorCopy(input, dims, strides, offset, &out): the elements
\* of input, in row-major order, are written to the elements of the view
\* (dims, strides, offset) of out's holder, in row-major order; the numbers
\* of elements must agree
StridedTensorCopy(input, dims, strides, offset, out) ==
  IF Product(input.dims) # Product(dims) THEN
    [err |-> InvalidArgument("Input numel must be equal with out numel."),
     out |-> out]
  ELSE
    LET view == [out EXCEPT !.dims = dims, !.strides = strides,
                            !.offset = offset]
        Source(j) ==
          LET i == CHOOSE i \in Indices(input.dims) :
                     RowMajor(i, input.dims) = RowMajor(j, dims)
          IN input.data[Addr(input, i)]
    IN [err |-> NoError,
        out |-> [view EXCEPT !.data =
                   [a \in 1..Len(out.data) |->
                      IF \E j \in Indices(dims) : Addr(view, j) = a
                      THEN Source(CHOOSE j \in Indices(dims) :
                                    Addr(view, j) = a)
                      ELSE out.data[a]]]]

\* what the kernel leaves: the exception raised, *x_grad, and the steps
\* that ran
IsgResult(err, x_grad, steps) ==
  [err |-> err, x_grad |-> x_grad, steps |-> steps]

\* lines 38-57 without the zero fill
IsgBody_nofill(out_grad, index, dim, x_grad) ==
  LET g1 == Alloc(x_grad)
      g2 == set_strides(g1, calc_strides(g1.dims))
      tmp == IndexSelectStridedKernel(g2, index, dim)
      c == StridedTensorCopy(out_grad, tmp.dims, tmp.strides, tmp.offset,
                             tmp)
  IN IsgResult(c.err, [g2 EXCEPT !.data = c.out.data],
               <<"Alloc", "set_strides", "IndexSelectStridedKernel",
                 "StridedTensorCopy">>)

\* lines 38-57: allocate, make contiguous, fill with 0, copy out_grad into
\* the view selected by (index, dim); tmp shares x_grad's holder
IsgBody(out_grad, index, dim, x_grad) ==
  LET g1 == Alloc(x_grad)
      g2 == set_strides(g1, calc_strides(g1.dims))
      g3 == StridedTensorFill(g2, 0)
      tmp == IndexSelectStridedKernel(g3, index, dim)
      c == StridedTensorCopy(out_grad, tmp.dims, tmp.strides, tmp.offset,
                             tmp)
  IN IsgResult(c.err, [g3 EXCEPT !.data = c.out.data],
               <<"Alloc", "set_strides", "StridedTensorFill",
                 "IndexSelectStridedKernel", "StridedTensorCopy">>)

IndexSelectGradStridedKernel_noflag(FLAGS_use_stride_kernel, out_grad, index, dim, x_grad) ==
  IsgBody(out_grad, index, dim, x_grad)

IndexSelectGradStridedKernel(FLAGS_use_stride_kernel, out_grad, index, dim, x_grad) ==
  IF ~FLAGS_use_stride_kernel THEN
    IsgResult(Fatal("FLAGS_use_stride_kernel is closed. Strided kernel be called, something wrong has happened!"),
              x_grad, <<>>)
  ELSE IsgBody(out_grad, index, dim, x_grad)

\* ---- the calls ----
IsgMaxOffset == 1

IsgDims == {<<2>>, <<2, 3>>, <<2, 1, 2>>}

\* strides of a tensor stored with its first dimension innermost
ColumnStrides(dims) ==
  [k \in 1..Len(dims) |-> Product(SubSeq(dims, 1, k - 1))]

IsgStrides(dims) == {calc_strides(dims), ColumnStrides(dims)}

\* *x_grad as it is passed in: dims set, any strides, a holder with
\* arbitrary content
IsgXGrads ==
  {DenseTensor(dims, strides, offset, allocated,
               [a \in 1..(Product(dims) + offset) |-> v]) :
     dims \in IsgDims, strides \in UNION {IsgStrides(d) : d \in IsgDims},
     offset \in 0..IsgMaxOffset, allocated \in BOOLEAN, v \in {0, 9}}

\* an out_grad of the given dims and strides whose elements are 1, 2, ...
\* in row-major order
IsgOutGrad(dims, strides) ==
  LET t == DenseTensor(dims, strides, 0, TRUE, <<>>) IN
    [t EXCEPT !.data =
       [a \in 1..Product(dims) |->
          1 + RowMajor(CHOOSE i \in Indices(dims) : Addr(t, i) = a, dims)]]

InitIsg == IsgIdle /\ RpcIdle /\ PNormIdle /\ PoolIdle /\ ArgmaxIdle

CallIndexSelectGradStridedKernel ==
  /\ isg_in = NoCall
  /\ \E x_grad \in IsgXGrads, flag \in BOOLEAN, matching \in BOOLEAN :
       /\ Len(x_grad.strides) = Len(x_grad.dims)
       /\ x_grad.strides \in IsgStrides(x_grad.dims)
       /\ \E dim \in (0 - Len(x_grad.dims))..(Len(x_grad.dims) - 1) :
            LET d == IF dim >= 0 THEN dim ELSE dim + Len(x_grad.dims)
                gdims == IF matching THEN Erase(x_grad.dims, d)
                         ELSE x_grad.dims
            IN \E index \in 0..(x_grad.dims[d + 1] - 1),
                  gstrides \in IsgStrides(gdims) :
                 LET out_grad == IsgOutGrad(gdims, gstrides) IN
                   /\ isg_in' = [kernel |-> "IndexSelectGradStridedKernel",
                                 FLAGS_use_stride_kernel |-> flag,
                                 out_grad |-> out_grad, index |-> index,
                                 dim |-> dim, x_grad |-> x_grad]
                   /\ isg_out' = IndexSelectGradStridedKernel(
                                   flag, out_grad, index, dim, x_grad)
                   /\ UNCHANGED notIsg

NextIsg == CallIndexSelectGradStridedKernel

SpecIsg == InitIsg /\ [][NextIsg]_vars

(***************************************************************************)
(* IndexSelectGradStridedKernel: properties                                *)
(***************************************************************************)
IsgCalled == isg_in # NoCall

IsgSucceeded == IsgCalled /\ isg_out.err = NoError

\* dim counted from the front
IsgDim ==
  IF isg_in.dim >= 0 THEN isg_in.dim
  ELSE isg_in.dim + Len(isg_in.x_grad.dims)

\* the element of out_grad that is number n (from 0) in row-major order
IsgOutGradElement(n) ==
  LET g == isg_in.out_grad
      i == CHOOSE i \in Indices(g.dims) : RowMajor(i, g.dims) = n
  IN g.data[Addr(g, i)]

\* C14: after a successful call x_grad has the contiguous strides of its
\* dims, its sub-tensor at position index along dimension dim equals
\* out_grad element for element, and every other element of x_grad is 0.
C14_IndexSelectGrad ==
  IsgSucceeded =>
    LET g == isg_out.x_grad
        dims == g.dims
    IN /\ dims = isg_in.x_grad.dims
       /\ \A k \in 1..Len(dims) :
            g.strides[k] = Product(SubSeq(dims, k + 1, Len(dims)))
       /\ \A i \in Indices(dims) :
            g.data[Addr(g, i)] =
              (IF i[IsgDim + 1] = isg_in.index
               THEN IsgOutGradElement(
                      RowMajor(Erase(i, IsgDim), Erase(dims, IsgDim)))
               ELSE 0)

\* a 2x3 x_grad passed in with column-major strides and a holder full of
\* 9, index 2 along dim -1, out_grad <<1, 2>>: x_grad is
\* <<0, 0, 1>>, <<0, 0, 2>> with strides <<3, 1>>
C14_Witness ==
  /\ IsgSucceeded
  /\ isg_in.x_grad.dims = <<2, 3>> /\ isg_in.x_grad.strides = <<1, 2>>
  /\ isg_in.x_grad.offset = 0 /\ isg_in.x_grad.data[1] = 9
  /\ isg_in.dim = -1 /\ isg_in.index = 2
  /\ isg_out.x_grad.strides = <<3, 1>>
  /\ isg_out.x_grad.data = <<0, 0, 1, 0, 0, 2>>

\* C15: with FLAGS_use_stride_kernel false the kernel raises a Fatal error
\* before it allocates x_grad, changes its strides or writes an element:
\* x_grad is left exactly as it was passed in.
C15_StrideFlagOff ==
  (IsgCalled /\ ~isg_in.FLAGS_use_stride_kernel) =>
    /\ isg_out.err.type = "Fatal"
    /\ isg_out.steps = <<>>
    /\ isg_out.x_grad = isg_in.x_grad

\* the flag is off and x_grad, not allocated and with column-major strides,
\* comes back as it was
C15_Witness ==
  /\ IsgCalled /\ ~isg_in.FLAGS_use_stride_kernel
  /\ ~isg_in.x_grad.allocated /\ isg_in.x_grad.dims = <<2, 3>>
  /\ isg_in.x_grad.strides = <<1, 2>>
  /\ isg_out.err.type = "Fatal"
  /\ isg_out.x_grad = isg_in.x_grad

====
